---- MODULE Spec2Model ----
(***************************************************************************)
(* CareSignal AI: the visit-processing pipeline (clean -> structure ->     *)
(* analyze), the POST /api/analyze route, the record page's handleAnalyze  *)
(* and the session-scoped patient store.                                   *)
(*                                                                         *)
(* A JavaScript string the code inspects (trim, indexOf, regex, ===) is a  *)
(* Text: a sequence of chunks.  A chunk is one whitespace character, one   *)
(* brace, one code fence (three backquotes), the word json, or a run of    *)
(* other characters that holds none of these at its ends.  Fixed messages  *)
(* that the code only passes along are TLA+ strings.                       *)
(***************************************************************************)
EXTENDS Naturals, Integers, Sequences, FiniteSets, TLC

VARIABLES
  apiKeyConfigured,  \* process.env.OPENAI_API_KEY is set and non-blank
  clientInstance,    \* the singleton of getOpenAIClient exists
  pipe,              \* one invocation of analyzeCaregiverTranscript
  gatewayLog,        \* the chat-completion calls it made, in order
  patients,          \* PatientProvider: patients
  activePatientId,   \* PatientProvider: activePatientId (0 is null)
  route,             \* the page the router shows
  page,              \* the mounted RecordPage instance's state
  invocations,       \* the handleAnalyze calls that are awaiting a fetch
  orphaned,          \* the requests a route is still handling after their
                     \* fetch rejected
  clock,             \* Date.now(), counted in appends
  callback,          \* the activePatientId closed over by the addAnalysisToActivePatient
                     \* a consumer of the store holds
  lastEvent,         \* history: what the last step of the store or page did
  http,              \* the request POST /api/analyze is handling and its responses
  calc,              \* a helper function applied to an input: the input and the output
  session            \* sessionStorage's item, PatientProvider's hydrated flag and
                     \* the render whose effects ran last

vars == <<apiKeyConfigured, clientInstance, pipe, gatewayLog, patients,
          activePatientId, route, page, invocations, orphaned, clock, callback,
          lastEvent, http, calc, session>>

pipeVars == <<pipe, gatewayLog>>
auxVars == <<http, calc, session>>
storeVars ==
  <<patients, activePatientId, route, page, invocations, orphaned, clock, callback,
    lastEvent>>

-----------------------------------------------------------------------------
(* Text *)

WS == {" ", "\n"}

RECURSIVE TrimStart(_)
TrimStart(t) ==
  IF t # <<>> /\ Head(t) \in WS THEN TrimStart(Tail(t)) ELSE t

RECURSIVE TrimEnd(_)
TrimEnd(t) ==
  IF t # <<>> /\ t[Len(t)] \in WS THEN TrimEnd(SubSeq(t, 1, Len(t) - 1)) ELSE t

\* String.prototype.trim
Trim(t) == TrimEnd(TrimStart(t))

\* 0-based index of the first chunk c of t, -1 when there is none
IndexOf(t, c) ==
  IF \E i \in 1..Len(t) : t[i] = c
  THEN (CHOOSE i \in 1..Len(t) : t[i] = c /\ \A j \in 1..(i - 1) : t[j] # c) - 1
  ELSE -1

\* 0-based index of the last chunk c of t, -1 when there is none
LastIndexOf(t, c) ==
  IF \E i \in 1..Len(t) : t[i] = c
  THEN (CHOOSE i \in 1..Len(t) : t[i] = c /\ \A j \in (i + 1)..Len(t) : t[j] # c) - 1
  ELSE -1

\* String.prototype.slice(start, end) for 0 <= start <= end <= length
Slice(t, start, end) == SubSeq(t, start + 1, end)

LowerChunk(c) ==
  CASE c = "High" -> "high"
    [] c = "HIGH" -> "high"
    [] c = "URGENT" -> "urgent"
    [] c = "Urgent" -> "urgent"
    [] c = "Moderate" -> "moderate"
    [] c = "Medium" -> "medium"
    [] c = "Low" -> "low"
    [] c = "LOW" -> "low"
    [] c = "MEDIUM" -> "medium"
    [] c = "MODERATE" -> "moderate"
    [] c = "Critical" -> "critical"
    [] c = "Fall risk" -> "fall risk"
    [] c = "Dehydration" -> "dehydration"
    [] c = "Constructor" -> "constructor"
    [] c = "Dizzy" -> "dizzy"
    [] c = "Alert" -> "alert"
    [] c = "Stable visit" -> "stable visit"
    [] c = "Medication error" -> "medication error"
    [] c = "Immediate attention" -> "immediate attention"
    [] OTHER -> c

\* String.prototype.toLowerCase
ToLowerCase(t) == [i \in DOMAIN t |-> LowerChunk(t[i])]

-----------------------------------------------------------------------------
(* JSON values, as JSON.parse returns them *)

JStr(t) == [type |-> "string", text |-> t]
JNum(n) == [type |-> "number", num |-> n]
JNull == [type |-> "null"]
JUndefined == [type |-> "undefined"]
JArr(items) == [type |-> "array", items |-> items]
JObj(fields) == [type |-> "object", fields |-> fields]

\* typeof v === "object" (null included, as in JavaScript)
TypeofObject(v) == v.type \in {"object", "array", "null"}

\* !v for the values of the model
Falsy(v) ==
  \/ v.type \in {"null", "undefined"}
  \/ v.type = "string" /\ v.text = <<>>
  \/ v.type = "number" /\ v.num = 0

\* obj.key for a value that passed the object test
Prop(v, key) ==
  IF v.type = "object" /\ key \in DOMAIN v.fields THEN v.fields[key] ELSE JUndefined

\* the chunk of three backquote characters that opens or closes a code block
Fence == "<fence>"

\* completions of the structuring stage
DocProse == <<"The", " ", "visit", " ", "went", " ", "well.">>
DocNull == <<"null">>
DocNumber == <<"42">>
DocArray == <<"[", "]">>
DocEmptyObj == <<"{", "}">>
DocVisit ==
  <<"{",
    "\"visit_summary\":\"Stable visit.\",\"key_observations\":[\"Alert\",5],\"concerns\":\"none\",\"care_level_indicator\":\"watch\"",
    "}">>
DocVisitBadLevel ==
  <<"{", "\"visit_summary\":7,\"concerns\":[\"Dizzy\"],\"care_level_indicator\":\"Watch\"", "}">>
DocVisitFenced == <<"Here:", "\n", Fence, "json", "\n">> \o DocVisit \o <<"\n", Fence, " ">>
DocVisitPadded == <<" ", "Result:", " ">> \o DocVisit \o <<" ", "Done.">>
DocTruncated == <<"{", "\"visit_summary\":\"Sta">>
DocBracesReversed == <<"}", " ", "{">>

\* completions of the risk stage
DocRisks ==
  <<"{", "\"risk_flags\":[", "{",
    "\"risk\":\"Fall risk\",\"severity\":\"High\",\"reason\":\"Unsteady gait\"",
    "}", ",", "null", ",", "{", "\"risk\":7,\"severity\":\"Moderate\"", "}", "]", "}">>
DocNoRisks == <<"{", "\"risk_flags\":[]", "}">>
DocRisksNotArray == <<"{", "\"risk_flags\":\"none\"", "}">>
DocRisksFenced == <<Fence, "\n">> \o DocRisks \o <<Fence>>

ParseOk(v) == [ok |-> TRUE, value |-> v]
ParseFail == [ok |-> FALSE]

\* JSON.parse on the texts of the model; every other text is a SyntaxError
JsonParse(t) ==
  CASE t = DocNull -> ParseOk(JNull)
    [] t = DocNumber -> ParseOk(JNum(42))
    [] t = DocArray -> ParseOk(JArr(<<>>))
    [] t = DocEmptyObj -> ParseOk(JObj(<<>>))
    [] t = DocVisit ->
         ParseOk(JObj([visit_summary |-> JStr(<<"Stable", " ", "visit.">>),
                       key_observations |-> JArr(<<JStr(<<"Alert">>), JNum(5)>>),
                       concerns |-> JStr(<<"none">>),
                       care_level_indicator |-> JStr(<<"watch">>)]))
    [] t = DocVisitBadLevel ->
         ParseOk(JObj([visit_summary |-> JNum(7),
                       concerns |-> JArr(<<JStr(<<"Dizzy">>)>>),
                       care_level_indicator |-> JStr(<<"Watch">>)]))
    [] t = DocRisks ->
         ParseOk(JObj([risk_flags |->
           JArr(<<JObj([risk |-> JStr(<<"Fall", " ", "risk">>),
                        severity |-> JStr(<<"High">>),
                        reason |-> JStr(<<"Unsteady", " ", "gait">>)]),
                  JNull,
                  JObj([risk |-> JNum(7), severity |-> JStr(<<"Moderate">>)])>>)]))
    [] t = DocNoRisks -> ParseOk(JObj([risk_flags |-> JArr(<<>>)]))
    [] t = DocRisksNotArray -> ParseOk(JObj([risk_flags |-> JStr(<<"none">>)]))
    [] OTHER -> ParseFail

-----------------------------------------------------------------------------
(* src/lib/ai/pipeline.ts: parsing and normalisation *)

\* the 1-based positions of the code fences of t
FencePositions(t) == {i \in 1..Len(t) : t[i] = Fence}

\* codeBlockRegex, fence (?:json)? \s* ([\s\S]*?) fence: the capture group of the
\* leftmost match
CodeBlockBody(t) ==
  LET open == CHOOSE i \in FencePositions(t) : \A j \in FencePositions(t) : i <= j
      afterTag == IF open < Len(t) /\ t[open + 1] = "json" THEN open + 2 ELSE open + 1
      rest == SubSeq(t, afterTag, Len(t))
      body == TrimStart(rest)
      close == IndexOf(body, Fence)
  IN Slice(body, 0, close)

\* extractJson without the code block branch
extractJsonBracesOnly(content) ==
  LET trimmed == Trim(content)
      start == IndexOf(trimmed, "{")
      end == LastIndexOf(trimmed, "}") + 1
  IN IF start # -1 /\ end > start THEN Slice(trimmed, start, end) ELSE trimmed

extractJson(content) ==
  LET trimmed == Trim(content)
      start == IndexOf(trimmed, "{")
      end == LastIndexOf(trimmed, "}") + 1
  IN IF Cardinality(FencePositions(trimmed)) >= 2
     THEN Trim(CodeBlockBody(trimmed))
     ELSE IF start # -1 /\ end > start
          THEN Slice(trimmed, start, end)
          ELSE trimmed

createEmptyStructuredData ==
  [visit_summary |-> <<>>,
   key_observations |-> <<>>,
   activities_completed |-> <<>>,
   medication_notes |-> <<>>,
   concerns |-> <<>>,
   suggested_followups |-> <<>>,
   care_level_indicator |-> <<"stable">>]

\* isValidCareLevel accepting every string
isValidCareLevelAnyString(v) == v.type = "string"

isValidCareLevel(v) ==
  v.type = "string" /\ v.text \in {<<"stable">>, <<"watch">>, <<"attention_needed">>}

\* toArray dropping the elements that are no strings
toArrayDropping(v) ==
  IF v.type = "array"
  THEN LET kept == SelectSeq(v.items, LAMBDA x : x.type = "string")
       IN [i \in DOMAIN kept |-> kept[i].text]
  ELSE <<>>

\* toArray converting the elements that are no strings with String(x)
toArrayStringifying(v) ==
  IF v.type = "array"
  THEN [i \in DOMAIN v.items |->
          IF v.items[i].type = "string" THEN v.items[i].text ELSE <<"[object Object]">>]
  ELSE <<>>

\* toArray of normalizeStructuredData
toArray(v) ==
  IF v.type = "array"
  THEN [i \in DOMAIN v.items |->
          IF v.items[i].type = "string" THEN v.items[i].text ELSE <<>>]
  ELSE <<>>

normalizeStructuredData(parsed) ==
  [visit_summary |->
     IF Prop(parsed, "visit_summary").type = "string"
     THEN Prop(parsed, "visit_summary").text ELSE <<>>,
   key_observations |-> toArray(Prop(parsed, "key_observations")),
   activities_completed |-> toArray(Prop(parsed, "activities_completed")),
   medication_notes |-> toArray(Prop(parsed, "medication_notes")),
   concerns |-> toArray(Prop(parsed, "concerns")),
   suggested_followups |-> toArray(Prop(parsed, "suggested_followups")),
   care_level_indicator |->
     IF isValidCareLevel(Prop(parsed, "care_level_indicator"))
     THEN Prop(parsed, "care_level_indicator").text ELSE <<"stable">>]

\* a stage function's outcome: a returned value, or a thrown one
Returned(v) == [ok |-> TRUE, value |-> v]
Thrown(e) == [ok |-> FALSE, thrown |-> e]

parseStructuredDataRaising(content) ==
  LET parsed == JsonParse(extractJson(content))
  IN IF ~parsed.ok
     THEN Thrown([isError |-> TRUE, name |-> "SyntaxError",
                  message |-> "Unexpected token in JSON"])
     ELSE IF Falsy(parsed.value) \/ ~TypeofObject(parsed.value)
          THEN Returned(createEmptyStructuredData)
          ELSE Returned(normalizeStructuredData(parsed.value))

parseStructuredData(content) ==
  LET parsed == JsonParse(extractJson(content))
  IN IF ~parsed.ok
     THEN Returned(createEmptyStructuredData)
     ELSE IF Falsy(parsed.value) \/ ~TypeofObject(parsed.value)
          THEN Returned(createEmptyStructuredData)
          ELSE Returned(normalizeStructuredData(parsed.value))

isValidRiskFlag(v) == v.type # "null" /\ TypeofObject(v)

\* normalizeSeverity comparing without toLowerCase
normalizeSeverityCaseSensitive(v) ==
  LET s == IF v.type = "string" THEN v.text ELSE <<>>
  IN IF s = <<"medium">> \/ s = <<"moderate">> THEN <<"medium">>
     ELSE IF s = <<"high">> \/ s = <<"urgent">> THEN <<"high">>
     ELSE <<"low">>

normalizeSeverity(v) ==
  LET s == ToLowerCase(IF v.type = "string" THEN v.text ELSE <<>>)
  IN IF s = <<"medium">> \/ s = <<"moderate">> THEN <<"medium">>
     ELSE IF s = <<"high">> \/ s = <<"urgent">> THEN <<"high">>
     ELSE <<"low">>

\* Array.prototype.filter with isValidRiskFlag
RECURSIVE FilterValidFlags(_)
FilterValidFlags(items) ==
  IF items = <<>> THEN <<>>
  ELSE IF isValidRiskFlag(Head(items))
       THEN <<Head(items)>> \o FilterValidFlags(Tail(items))
       ELSE FilterValidFlags(Tail(items))

toRiskFlag(f) ==
  [risk |-> IF Prop(f, "risk").type = "string" THEN Prop(f, "risk").text ELSE <<>>,
   severity |-> normalizeSeverity(Prop(f, "severity")),
   reason |-> IF Prop(f, "reason").type = "string" THEN Prop(f, "reason").text ELSE <<>>]

parseRiskAnalysis(content) ==
  LET parsed == JsonParse(extractJson(content))
  IN IF ~parsed.ok
     THEN Returned([risk_flags |-> <<>>])
     ELSE IF Falsy(parsed.value) \/ ~TypeofObject(parsed.value)
          THEN Returned([risk_flags |-> <<>>])
          ELSE LET rf == Prop(parsed.value, "risk_flags")
                   flags == IF rf.type = "array" THEN FilterValidFlags(rf.items) ELSE <<>>
               IN Returned([risk_flags |-> [i \in DOMAIN flags |-> toRiskFlag(flags[i])]])

-----------------------------------------------------------------------------
(* src/lib/ai/pipeline.ts: the three stages *)

Undefined == [type |-> "undefined"]

\* new Error(message)
JsError(message) == [isError |-> TRUE, name |-> "Error", message |-> message]

\* a thrown value that is no Error instance, such as a plain object with a message
NonError(message) == [isError |-> FALSE, name |-> "Object", message |-> message]

\* new PipelineError(message, step, cause)
PipelineError(message, step, cause) ==
  [isError |-> TRUE, name |-> "PipelineError", message |-> message,
   step |-> step, cause |-> cause]

\* what openai.chat.completions.create does: it resolves to a completion whose
\* first choice holds content or not, or it rejects
Completion(t) == [kind |-> "completion", hasContent |-> TRUE, content |-> t]
NoContent == [kind |-> "completion", hasContent |-> FALSE, content |-> <<>>]
Rejects(e) == [kind |-> "throw", thrown |-> e]
Pending == [kind |-> "pending"]

\* !content for content = completion.choices[0]?.message?.content?.trim()
NoUsableContent(r) == ~r.hasContent \/ Trim(r.content) = <<>>

\* JSON.stringify(structuredData, null, 2)
JsonStringify(v) == [json |-> v, indent |-> 2]

cleanTranscriptRequest(rawText) ==
  [stage |-> "clean", system |-> "TRANSCRIPT_CLEANER", jsonFormat |-> FALSE,
   prefix |-> "Clean this transcript:\n\n", body |-> Trim(rawText)]

structureVisitDataRequest(cleanedTranscript) ==
  [stage |-> "structure", system |-> "CLINICAL_STRUCTURER", jsonFormat |-> TRUE,
   prefix |-> "Structure these visit notes:\n\n", body |-> cleanedTranscript]

analyzeRisksRequest(structuredData) ==
  [stage |-> "analyze", system |-> "RISK_ANALYZER", jsonFormat |-> TRUE,
   prefix |-> "Analyze risks from this structured visit data:\n\n",
   body |-> JsonStringify(structuredData)]

\* cleanTranscript once the gateway has answered r
cleanTranscript(r) ==
  IF r.kind = "throw" THEN Thrown(r.thrown)
  ELSE IF NoUsableContent(r)
       THEN Thrown(PipelineError("No output from transcript cleaning step", "clean",
                                 Undefined))
       ELSE Returned(Trim(r.content))

\* structureVisitData once the gateway has answered r
structureVisitData(r) ==
  IF r.kind = "throw" THEN Thrown(r.thrown)
  ELSE IF NoUsableContent(r)
       THEN Thrown(PipelineError("No output from clinical structuring step", "structure",
                                 Undefined))
       ELSE parseStructuredData(Trim(r.content))

\* analyzeRisks once the gateway has answered r
analyzeRisks(r) ==
  IF r.kind = "throw" THEN Thrown(r.thrown)
  ELSE IF NoUsableContent(r)
       THEN Thrown(PipelineError("No output from risk analysis step", "analyze", Undefined))
       ELSE parseRiskAnalysis(Trim(r.content))

\* catchAsPipelineError dropping the cause
catchWithoutCause(res, step, fallback) ==
  IF res.ok THEN res
  ELSE Thrown(PipelineError(IF res.thrown.isError THEN res.thrown.message ELSE fallback,
                            step, Undefined))

\* promise.catch((err) => { throw new PipelineError(
\*   err instanceof Error ? err.message : fallback, step, err) })
catchAsPipelineError(res, step, fallback) ==
  IF res.ok THEN res
  ELSE Thrown(PipelineError(IF res.thrown.isError THEN res.thrown.message ELSE fallback,
                            step, res.thrown))

cleanStep(r) == catchAsPipelineError(cleanTranscript(r), "clean", "Transcript cleaning failed")
structureStep(r) ==
  catchAsPipelineError(structureVisitData(r), "structure", "Clinical structuring failed")
analyzeStep(r) == catchAsPipelineError(analyzeRisks(r), "analyze", "Risk analysis failed")

ApiKeyMessage ==
  "OPENAI_API_KEY is not set. Add it to .env or .env.local in the project root, then restart the dev server."

\* getOpenAIClient throws exactly when no singleton exists and getApiKey throws
getOpenAIClientThrows(instance, configured) == ~instance /\ ~configured

isOpenAIConfigured(configured) == configured

PipelineResult(cleanedTranscript, structuredData, risks) ==
  [cleanedTranscript |-> cleanedTranscript, structuredData |-> structuredData,
   risks |-> risks]

\* analyzeCaregiverTranscriptInternal(text, client) as a function of what the gateway
\* answers to the calls it makes; a later answer is read only if the call is made
analyzeCaregiverTranscriptInternal(text, injected, instance, configured, r1, r2, r3) ==
  IF ~injected /\ getOpenAIClientThrows(instance, configured)
  THEN Thrown(JsError(ApiKeyMessage))
  ELSE LET c == cleanStep(r1)
       IN IF ~c.ok THEN c
          ELSE LET s == structureStep(r2)
               IN IF ~s.ok THEN s
                  ELSE LET a == analyzeStep(r3)
                       IN IF ~a.ok THEN a
                          ELSE Returned(PipelineResult(c.value, s.value, a.value))

\* analyzeCaregiverTranscript(text, client)
analyzeCaregiverTranscript(text, injected, instance, configured, r1, r2, r3) ==
  IF Trim(text) = <<>>
  THEN Thrown(PipelineError("Input text cannot be empty", "clean", Undefined))
  ELSE analyzeCaregiverTranscriptInternal(Trim(text), injected, instance, configured,
                                          r1, r2, r3)

-----------------------------------------------------------------------------
(* The pipeline, one gateway call at a time *)

Transcripts ==
  {<<>>, <<" ", "\n">>, <<" ", "Patient", " ", "took", " ", "meds.", " ">>}

GatewayFailures ==
  {NoContent, Completion(<<>>), Completion(<<" ", "\n">>),
   Rejects(JsError("Request timed out.")), Rejects(NonError("rate limited"))}

CleanAnswers ==
  GatewayFailures \cup
  {Completion(<<" ", "Patient", " ", "took", " ", "medications.", "\n">>),
   Completion(<<"No", " ", "falls.">>)}

StructureAnswers ==
  GatewayFailures \cup
  {Completion(d) : d \in {DocProse, DocNull, DocNumber, DocArray, DocEmptyObj, DocVisit,
                          DocVisitBadLevel, DocVisitFenced, DocVisitPadded, DocTruncated,
                          DocBracesReversed}}

AnalyzeAnswers ==
  GatewayFailures \cup
  {Completion(d) : d \in {DocProse, DocNull, DocArray, DocRisks, DocNoRisks,
                          DocRisksNotArray, DocRisksFenced}}

NoStructuredData == [unset |-> TRUE]
NoOutcome == [ok |-> FALSE, thrown |-> [isError |-> FALSE, name |-> "pending"]]

PipeReady(text, injected) ==
  [pc |-> "ready", text |-> text, injected |-> injected, openai |-> "none",
   cleanedTranscript |-> <<>>, structuredData |-> NoStructuredData,
   outcome |-> NoOutcome]

PipeIdle == PipeReady(<<>>, FALSE)

Call(request) == [request |-> request, response |-> Pending]

\* the pending call of the log gets its answer
Answered(log, r) == [log EXCEPT ![Len(log)].response = r]

\* Invoke without the empty-input check
InvokeUnvalidated ==
  /\ pipe.pc = "ready"
  /\ IF ~pipe.injected /\ getOpenAIClientThrows(clientInstance, apiKeyConfigured)
     THEN /\ pipe' = [pipe EXCEPT !.pc = "done",
                        !.outcome = Thrown(JsError(ApiKeyMessage))]
          /\ UNCHANGED <<gatewayLog, clientInstance>>
     ELSE /\ pipe' = [pipe EXCEPT !.pc = "clean",
                        !.openai = IF pipe.injected THEN "injected" ELSE "singleton"]
          /\ clientInstance' = (clientInstance \/ ~pipe.injected)
          /\ gatewayLog' =
               Append(gatewayLog, Call(cleanTranscriptRequest(Trim(pipe.text))))
  /\ UNCHANGED <<apiKeyConfigured, storeVars, auxVars>>

\* analyzeCaregiverTranscript up to its first await
Invoke ==
  /\ pipe.pc = "ready"
  /\ IF Trim(pipe.text) = <<>>
     THEN /\ pipe' = [pipe EXCEPT !.pc = "done",
                        !.outcome = Thrown(PipelineError("Input text cannot be empty",
                                                         "clean", Undefined))]
          /\ UNCHANGED <<gatewayLog, clientInstance>>
     ELSE IF ~pipe.injected /\ getOpenAIClientThrows(clientInstance, apiKeyConfigured)
          THEN /\ pipe' = [pipe EXCEPT !.pc = "done",
                             !.outcome = Thrown(JsError(ApiKeyMessage))]
               /\ UNCHANGED <<gatewayLog, clientInstance>>
          ELSE /\ pipe' = [pipe EXCEPT !.pc = "clean",
                             !.openai = IF pipe.injected THEN "injected" ELSE "singleton"]
               /\ clientInstance' = (clientInstance \/ ~pipe.injected)
               /\ gatewayLog' =
                    Append(gatewayLog, Call(cleanTranscriptRequest(Trim(pipe.text))))
  /\ UNCHANGED <<apiKeyConfigured, storeVars, auxVars>>

\* CleanReturns issuing the structure and analyze calls together
CleanReturnsConcurrent ==
  /\ pipe.pc = "clean"
  /\ \E r \in CleanAnswers :
       LET res == cleanStep(r)
       IN IF res.ok
          THEN /\ pipe' = [pipe EXCEPT !.pc = "structure", !.cleanedTranscript = res.value]
               /\ gatewayLog' =
                    Answered(gatewayLog, r)
                      \o <<Call(structureVisitDataRequest(res.value)),
                           Call(analyzeRisksRequest(createEmptyStructuredData))>>
          ELSE /\ pipe' = [pipe EXCEPT !.pc = "done", !.outcome = res]
               /\ gatewayLog' = Answered(gatewayLog, r)
  /\ UNCHANGED <<apiKeyConfigured, clientInstance, storeVars, auxVars>>

\* CleanReturns issuing the clean call a second time when the first one fails
CleanReturnsRetryingOnce ==
  /\ pipe.pc = "clean"
  /\ \E r \in CleanAnswers :
       LET res == cleanStep(r)
       IN IF res.ok
          THEN /\ pipe' = [pipe EXCEPT !.pc = "structure", !.cleanedTranscript = res.value]
               /\ gatewayLog' = Append(Answered(gatewayLog, r),
                                       Call(structureVisitDataRequest(res.value)))
          ELSE IF Len(gatewayLog) = 1
          THEN /\ pipe' = pipe
               /\ gatewayLog' = Append(Answered(gatewayLog, r), Call(gatewayLog[1].request))
          ELSE /\ pipe' = [pipe EXCEPT !.pc = "done", !.outcome = res]
               /\ gatewayLog' = Answered(gatewayLog, r)
  /\ UNCHANGED <<apiKeyConfigured, clientInstance, storeVars, auxVars>>

\* the clean call settles; on success the structure call is issued
CleanReturns ==
  /\ pipe.pc = "clean"
  /\ \E r \in CleanAnswers :
       LET res == cleanStep(r)
       IN IF res.ok
          THEN /\ pipe' = [pipe EXCEPT !.pc = "structure", !.cleanedTranscript = res.value]
               /\ gatewayLog' = Append(Answered(gatewayLog, r),
                                       Call(structureVisitDataRequest(res.value)))
          ELSE /\ pipe' = [pipe EXCEPT !.pc = "done", !.outcome = res]
               /\ gatewayLog' = Answered(gatewayLog, r)
  /\ UNCHANGED <<apiKeyConfigured, clientInstance, storeVars, auxVars>>

\* the structure call settles; on success the analyze call is issued
StructureReturns ==
  /\ pipe.pc = "structure"
  /\ \E r \in StructureAnswers :
       LET res == structureStep(r)
       IN IF res.ok
          THEN /\ pipe' = [pipe EXCEPT !.pc = "analyze", !.structuredData = res.value]
               /\ gatewayLog' = Append(Answered(gatewayLog, r),
                                       Call(analyzeRisksRequest(res.value)))
          ELSE /\ pipe' = [pipe EXCEPT !.pc = "done", !.outcome = res]
               /\ gatewayLog' = Answered(gatewayLog, r)
  /\ UNCHANGED <<apiKeyConfigured, clientInstance, storeVars, auxVars>>

\* AnalyzeReturns returning a result without risks when the analyze stage fails
AnalyzeReturnsPartial ==
  /\ pipe.pc = "analyze"
  /\ \E r \in AnalyzeAnswers :
       LET res == analyzeStep(r)
       IN /\ pipe' = [pipe EXCEPT !.pc = "done",
                        !.outcome = Returned(PipelineResult(
                                      pipe.cleanedTranscript, pipe.structuredData,
                                      IF res.ok THEN res.value
                                      ELSE [risk_flags |-> <<>>]))]
          /\ gatewayLog' = Answered(gatewayLog, r)
  /\ UNCHANGED <<apiKeyConfigured, clientInstance, storeVars, auxVars>>

\* the analyze call settles; on success the result is returned
AnalyzeReturns ==
  /\ pipe.pc = "analyze"
  /\ \E r \in AnalyzeAnswers :
       LET res == analyzeStep(r)
       IN /\ pipe' = [pipe EXCEPT !.pc = "done",
                        !.outcome = IF res.ok
                                    THEN Returned(PipelineResult(pipe.cleanedTranscript,
                                                                 pipe.structuredData,
                                                                 res.value))
                                    ELSE res]
          /\ gatewayLog' = Answered(gatewayLog, r)
  /\ UNCHANGED <<apiKeyConfigured, clientInstance, storeVars, auxVars>>

\* lastEvent after a step that is no step of handleAnalyze
UserEvent == [op |-> "none"]

\* recordingBlob: null, or a Blob with its MIME type and its size in bytes
NullBlob == [type |-> "null", size |-> 0]
Blob(type, size) == [type |-> type, size |-> size]

\* useState initial values of RecordPage; inputMode, which selects the panel
\* shown below the lg breakpoint, is not followed
FreshPage ==
  [status |-> "idle", transcript |-> <<>>, recordingBlob |-> NullBlob,
   errorMessage |-> "null"]

\* useState initial values of PatientProvider, with the record page mounted
StoreIdle ==
  /\ patients = <<>>
  /\ activePatientId = 0
  /\ route = "record"
  /\ page = FreshPage
  /\ invocations = <<>>
  /\ orphaned = <<>>
  /\ clock = 0
  /\ callback = 0
  /\ lastEvent = UserEvent

\* no request is being handled and no helper has been applied
HttpIdle == [pc |-> "idle", body |-> [json |-> "none"], bodyRead |-> FALSE,
             invoked |-> FALSE, responses |-> <<>>]
CalcIdle == [fn |-> "none"]
\* the session storage is not followed
SessionUnused == [unused |-> TRUE]
AuxIdle == http = HttpIdle /\ calc = CalcIdle /\ session = SessionUnused

\* the caller invokes analyzeCaregiverTranscript again once the last call has settled
NewInvocation ==
  /\ pipe.pc = "done"
  /\ \E text \in Transcripts, injected \in BOOLEAN : pipe' = PipeReady(text, injected)
  /\ gatewayLog' = <<>>
  /\ UNCHANGED <<apiKeyConfigured, clientInstance, storeVars, auxVars>>

InitPipeline ==
  /\ apiKeyConfigured \in BOOLEAN
  /\ clientInstance = FALSE
  /\ \E text \in Transcripts, injected \in BOOLEAN : pipe = PipeReady(text, injected)
  /\ gatewayLog = <<>>
  /\ StoreIdle
  /\ AuxIdle

NextPipeline ==
  \/ Invoke
  \/ CleanReturns
  \/ StructureReturns
  \/ AnalyzeReturns
  \/ NewInvocation

SpecPipeline == InitPipeline /\ [][NextPipeline]_vars

-----------------------------------------------------------------------------
(* Claims about the pipeline, checked under SpecPipeline *)

Stages == <<"clean", "structure", "analyze">>

\* the gateway answered with content that is non-empty after trimming
Usable(r) == r.kind = "completion" /\ ~NoUsableContent(r)

\* the gateway call threw, or returned no content
Failed(r) == r.kind = "throw" \/ (r.kind = "completion" /\ NoUsableContent(r))

NoOutputMessage(stage) ==
  CASE stage = "clean" -> "No output from transcript cleaning step"
    [] stage = "structure" -> "No output from clinical structuring step"
    [] stage = "analyze" -> "No output from risk analysis step"

FallbackMessage(stage) ==
  CASE stage = "clean" -> "Transcript cleaning failed"
    [] stage = "structure" -> "Clinical structuring failed"
    [] stage = "analyze" -> "Risk analysis failed"

\* the error a failed gateway call of a stage raises inside the stage function
UnderlyingError(stage, r) ==
  IF r.kind = "throw" THEN r.thrown
  ELSE PipelineError(NoOutputMessage(stage), stage, Undefined)

\* the text does not parse, or parses to something that is no JSON object
NotAJsonObject(content) ==
  LET parsed == JsonParse(extractJson(Trim(content)))
  IN ~parsed.ok \/ parsed.value.type # "object"

\* C1: the gateway calls of one invocation are clean, structure, analyze in
\* that order; a call is issued only when every earlier call has returned
\* usable content; the structure call carries exactly the trimmed content of
\* the clean completion and the analyze call exactly the serialised data that
\* stage 2 produced from the structure completion.
C1_StagesStrictlySequential ==
  /\ Len(gatewayLog) <= 3
  /\ \A i \in 1..Len(gatewayLog) :
       /\ gatewayLog[i].request.stage = Stages[i]
       /\ i < Len(gatewayLog) => Usable(gatewayLog[i].response)
  /\ Len(gatewayLog) >= 2 =>
       /\ gatewayLog[2].request.body = Trim(gatewayLog[1].response.content)
       /\ gatewayLog[2].request.body = pipe.cleanedTranscript
  /\ Len(gatewayLog) >= 3 =>
       /\ gatewayLog[3].request.body = JsonStringify(pipe.structuredData)
       /\ Returned(pipe.structuredData)
            = parseStructuredData(Trim(gatewayLog[2].response.content))

\* C1 witness: a run made all three calls and the cleaned text differs from
\* both the raw transcript and the untrimmed completion
C1_Witness ==
  /\ pipe.pc = "done"
  /\ pipe.outcome.ok
  /\ Len(gatewayLog) = 3
  /\ pipe.cleanedTranscript # gatewayLog[1].request.body
  /\ pipe.cleanedTranscript # gatewayLog[1].response.content
  /\ pipe.structuredData # createEmptyStructuredData

\* the invocation failed with a PipelineError for stage i of the log, built
\* from the given message and the underlying error, and made no later call
FailsAtStage(i, message) ==
  /\ pipe.pc = "done"
  /\ ~pipe.outcome.ok
  /\ pipe.outcome.thrown =
       PipelineError(message, Stages[i],
                     UnderlyingError(Stages[i], gatewayLog[i].response))
  /\ Len(gatewayLog) = i

\* C2 as stated: whenever the gateway call of stage s throws or returns no
\* content, the invocation fails with a PipelineError of step s whose message
\* is the underlying error's message and whose cause is the underlying error,
\* and no later gateway call is made.
C2_MessageAlwaysUnderlying ==
  \A i \in 1..Len(gatewayLog) :
    Failed(gatewayLog[i].response) =>
      FailsAtStage(i, UnderlyingError(Stages[i], gatewayLog[i].response).message)

\* C2 amended: as C2, but the message is the underlying error's message only
\* when the thrown value is an Error instance; for any other thrown value it
\* is the stage's fixed fallback message.
C2_StageFailureWrapped ==
  \A i \in 1..Len(gatewayLog) :
    Failed(gatewayLog[i].response) =>
      LET e == UnderlyingError(Stages[i], gatewayLog[i].response)
      IN FailsAtStage(i, IF e.isError THEN e.message ELSE FallbackMessage(Stages[i]))

\* C2 witness: the structure call rejected with a value that is no Error
C2_Witness ==
  /\ pipe.pc = "done"
  /\ Len(gatewayLog) = 2
  /\ gatewayLog[2].response = Rejects(NonError("rate limited"))
  /\ pipe.outcome.thrown.message = "Clinical structuring failed"

\* C3: an invocation with an empty or whitespace-only transcript fails in its
\* first step with the empty-input error, obtains no client and makes no
\* gateway call.
C3_EmptyInputFailsBeforeGateway ==
  Trim(pipe.text) = <<>> =>
    /\ pipe.pc \in {"ready", "done"}
    /\ gatewayLog = <<>>
    /\ pipe.openai = "none"
    /\ pipe.pc = "done" =>
         pipe.outcome = Thrown(PipelineError("Input text cannot be empty", "clean",
                                             Undefined))

\* C3 witness: a whitespace-only transcript has been rejected
C3_Witness ==
  /\ pipe.pc = "done"
  /\ pipe.text = <<" ", "\n">>
  /\ ~pipe.outcome.ok

\* the outcome is a result whose three parts come from the three completed
\* stages of this invocation
CompleteResult ==
  /\ pipe.outcome.ok
  /\ Len(gatewayLog) = 3
  /\ \A i \in 1..3 : Usable(gatewayLog[i].response)
  /\ pipe.outcome.value.cleanedTranscript = Trim(gatewayLog[1].response.content)
  /\ Returned(pipe.outcome.value.structuredData)
       = parseStructuredData(Trim(gatewayLog[2].response.content))
  /\ Returned(pipe.outcome.value.risks)
       = parseRiskAnalysis(Trim(gatewayLog[3].response.content))

\* the outcome is an error that names a step
StepError ==
  /\ ~pipe.outcome.ok
  /\ pipe.outcome.thrown.name = "PipelineError"
  /\ pipe.outcome.thrown.step \in {"clean", "structure", "analyze"}

\* the outcome is the configuration error of getOpenAIClient, raised before
\* any gateway call
ConfigurationError ==
  /\ ~pipe.outcome.ok
  /\ pipe.outcome.thrown = JsError(ApiKeyMessage)
  /\ gatewayLog = <<>>
  /\ ~pipe.injected /\ ~apiKeyConfigured /\ ~clientInstance

\* C4 as stated: every finished invocation ended either with a complete
\* result or with an error naming the failing step, and with no result when a
\* stage failed.
C4_ResultOrStepError ==
  pipe.pc = "done" =>
    /\ CompleteResult \/ StepError
    /\ pipe.outcome.ok => \A i \in 1..Len(gatewayLog) : ~Failed(gatewayLog[i].response)

\* C4 amended: every finished invocation ended with a complete result, with a
\* PipelineError naming the failing step, or, when no client was injected, no
\* singleton exists and the API key is missing, with the configuration error
\* raised before any gateway call; there is no result when a stage failed.
C4_ResultStepErrorOrConfigError ==
  pipe.pc = "done" =>
    /\ CompleteResult \/ StepError \/ ConfigurationError
    /\ pipe.outcome.ok => \A i \in 1..Len(gatewayLog) : ~Failed(gatewayLog[i].response)

\* C4 witness: the analyze stage failed after two completed stages and the
\* invocation ended with an error naming analyze
C4_Witness ==
  /\ pipe.pc = "done"
  /\ Len(gatewayLog) = 3
  /\ Failed(gatewayLog[3].response)
  /\ pipe.structuredData # createEmptyStructuredData
  /\ StepError
  /\ pipe.outcome.thrown.step = "analyze"

\* C5: a structure completion that is non-empty after trimming never fails
\* the invocation: the analyze call is issued, with the default record when
\* the text is no JSON object; an analyze completion that is non-empty after
\* trimming ends the invocation with a result, with no risk flags when the
\* text is no JSON object.
C5_MalformedOutputRecovered ==
  /\ (Len(gatewayLog) >= 2 /\ Usable(gatewayLog[2].response)) =>
       /\ Len(gatewayLog) = 3
       /\ NotAJsonObject(gatewayLog[2].response.content) =>
            pipe.structuredData = createEmptyStructuredData
  /\ (Len(gatewayLog) = 3 /\ Usable(gatewayLog[3].response)) =>
       /\ pipe.pc = "done"
       /\ pipe.outcome.ok
       /\ NotAJsonObject(gatewayLog[3].response.content) =>
            pipe.outcome.value.risks = [risk_flags |-> <<>>]

\* C5 witness: both JSON stages answered with prose and the invocation
\* returned a result
C5_Witness ==
  /\ pipe.pc = "done"
  /\ pipe.outcome.ok
  /\ gatewayLog[2].response = Completion(DocProse)
  /\ gatewayLog[3].response = Completion(DocProse)
  /\ pipe.outcome.value.structuredData = createEmptyStructuredData

-----------------------------------------------------------------------------
(* src/app/api/analyze/route.ts *)

ServiceUnavailableMessage ==
  "Add OPENAI_API_KEY to .env or .env.local, then restart the dev server."

\* NextResponse.json(data, {status}); ok is Response.ok
Response(status, data) ==
  [status |-> status, ok |-> (status >= 200 /\ status <= 299), data |-> data]

ErrorBody(error, message) == [error |-> error, message |-> message]

\* request bodies: no JSON, a JSON value that is no object, or an object
\* whose transcript property is a string or not
BodyWithTranscript(t) == [json |-> "object", transcriptIsString |-> TRUE, transcript |-> t]
BodyWithoutTranscript == [json |-> "object", transcriptIsString |-> FALSE, transcript |-> <<>>]
BodyNotObject == [json |-> "value", transcriptIsString |-> FALSE, transcript |-> <<>>]
BodyNotJson == [json |-> "invalid", transcriptIsString |-> FALSE, transcript |-> <<>>]

\* error.message.includes("OPENAI_API_KEY")
MentionsApiKey(message) ==
  LET key == "OPENAI_API_KEY"
  IN \E i \in 1..(Len(message) - Len(key) + 1) :
       SubSeq(message, i, i + Len(key) - 1) = key

\* the catch block of POST answering every error alike
POSTCatchGeneric(error) ==
  Response(500, ErrorBody("Internal server error", "An unexpected error occurred."))

\* the catch block of POST
POSTCatch(error) ==
  IF error.name = "PipelineError"
  THEN Response(500, [error |-> "Pipeline error", message |-> error.message,
                      step |-> error.step])
  ELSE IF error.isError /\ MentionsApiKey(error.message)
       THEN Response(503, ErrorBody("Configuration error", error.message))
       ELSE Response(500, ErrorBody("Internal server error",
                                    "An unexpected error occurred."))

\* POST(request) as a function of the environment, the body and what the
\* gateway answers to the calls the pipeline makes
POST(configured, instance, body, r1, r2, r3) ==
  IF ~isOpenAIConfigured(configured)
  THEN Response(503, ErrorBody("Service unavailable", ServiceUnavailableMessage))
  ELSE IF body.json = "invalid"
  THEN Response(400, ErrorBody("Invalid request", "Request body must be valid JSON."))
  ELSE IF body.json # "object"
  THEN Response(400, ErrorBody("Invalid request", "Request body must be a JSON object."))
  ELSE IF ~body.transcriptIsString
  THEN Response(400, ErrorBody("Invalid request", "Expected { transcript: string }."))
  ELSE IF Trim(body.transcript) = <<>>
  THEN Response(400, ErrorBody("Invalid request", "'transcript' cannot be empty."))
  ELSE LET result == analyzeCaregiverTranscript(Trim(body.transcript), FALSE, instance,
                                                configured, r1, r2, r3)
       IN IF result.ok THEN Response(200, result.value) ELSE POSTCatch(result.thrown)

\* whether handling the request created the singleton client
POSTCreatesClient(configured, body) ==
  /\ isOpenAIConfigured(configured)
  /\ body.json = "object" /\ body.transcriptIsString /\ Trim(body.transcript) # <<>>

-----------------------------------------------------------------------------
(* POST /api/analyze, one await at a time *)

\* the request bodies a client can send
Bodies ==
  {BodyNotJson, BodyNotObject, BodyWithoutTranscript}
    \cup {BodyWithTranscript(t) : t \in Transcripts}

\* the body is a JSON object whose transcript is a string, non-empty once trimmed
ValidBody(body) ==
  /\ body.json = "object"
  /\ body.transcriptIsString
  /\ Trim(body.transcript) # <<>>

\* no pipeline invocation has been made for the request
PipeUnused == [PipeIdle EXCEPT !.pc = "unused"]

Responded(h, response) ==
  [h EXCEPT !.pc = "done", !.responses = Append(@, response)]

\* a request arrives
RequestArrives ==
  /\ http.pc \in {"idle", "done"}
  /\ \E body \in Bodies :
       http' = [HttpIdle EXCEPT !.pc = "received", !.body = body]
  /\ pipe' = PipeUnused
  /\ gatewayLog' = <<>>
  /\ UNCHANGED <<apiKeyConfigured, clientInstance, storeVars, calc, session>>

\* POST up to await request.json()
RouteChecksCredential ==
  /\ http.pc = "received"
  /\ http' = IF ~isOpenAIConfigured(apiKeyConfigured)
             THEN Responded(http, Response(503, ErrorBody("Service unavailable",
                                                          ServiceUnavailableMessage)))
             ELSE [http EXCEPT !.pc = "body", !.bodyRead = TRUE]
  /\ UNCHANGED <<apiKeyConfigured, clientInstance, pipeVars, storeVars, calc, session>>

\* POST from the settled request.json() to await analyzeCaregiverTranscript(trimmed)
RouteValidatesBody ==
  /\ http.pc = "body"
  /\ LET body == http.body
     IN IF body.json = "invalid"
        THEN /\ http' = Responded(http, Response(400, ErrorBody("Invalid request",
                                            "Request body must be valid JSON.")))
             /\ UNCHANGED pipe
        ELSE IF body.json # "object"
        THEN /\ http' = Responded(http, Response(400, ErrorBody("Invalid request",
                                            "Request body must be a JSON object.")))
             /\ UNCHANGED pipe
        ELSE IF ~body.transcriptIsString
        THEN /\ http' = Responded(http, Response(400, ErrorBody("Invalid request",
                                            "Expected { transcript: string }.")))
             /\ UNCHANGED pipe
        ELSE IF Trim(body.transcript) = <<>>
        THEN /\ http' = Responded(http, Response(400, ErrorBody("Invalid request",
                                            "'transcript' cannot be empty.")))
             /\ UNCHANGED pipe
        ELSE /\ http' = [http EXCEPT !.pc = "pipeline", !.invoked = TRUE]
             /\ pipe' = PipeReady(Trim(body.transcript), FALSE)
  /\ UNCHANGED <<apiKeyConfigured, clientInstance, gatewayLog, storeVars, calc, session>>

\* POST after analyzeCaregiverTranscript settled
RouteResponds ==
  /\ http.pc = "pipeline"
  /\ pipe.pc = "done"
  /\ http' = Responded(http, IF pipe.outcome.ok
                             THEN Response(200, pipe.outcome.value)
                             ELSE POSTCatch(pipe.outcome.thrown))
  /\ UNCHANGED <<apiKeyConfigured, clientInstance, pipeVars, storeVars, calc, session>>

InitRoute ==
  /\ apiKeyConfigured \in BOOLEAN
  /\ clientInstance = FALSE
  /\ pipe = PipeUnused
  /\ gatewayLog = <<>>
  /\ StoreIdle
  /\ AuxIdle

NextRoute ==
  \/ RequestArrives
  \/ RouteChecksCredential
  \/ RouteValidatesBody
  \/ Invoke
  \/ CleanReturns
  \/ StructureReturns
  \/ AnalyzeReturns
  \/ RouteResponds

SpecRoute == InitRoute /\ [][NextRoute]_vars

\* C11: a request of POST /api/analyze never has more than one response and
\* has one when handling ends; the status is 200 with the result the pipeline
\* returned, 400, 503 or 500. Without the credential the answer is 503, the
\* body has not been read and the pipeline has not been invoked; with it, a
\* body that is no JSON object with a string transcript that is non-empty
\* once trimmed is answered 400 without invoking the pipeline; a PipelineError
\* is answered 500 with its step and message.
C11_OneResponsePerRequest ==
  /\ Len(http.responses) <= 1
  /\ (http.pc = "done") <=> (Len(http.responses) = 1)
  /\ ~http.invoked => pipe = PipeUnused /\ gatewayLog = <<>>
  /\ http.pc = "done" =>
       LET res == http.responses[1]
       IN /\ res.status \in {200, 400, 503, 500}
          /\ res.status = 200 =>
               /\ http.invoked /\ pipe.outcome.ok
               /\ res.data = pipe.outcome.value
               /\ CompleteResult
          /\ ~apiKeyConfigured =>
               res.status = 503 /\ ~http.bodyRead /\ ~http.invoked
          /\ apiKeyConfigured /\ ~ValidBody(http.body) =>
               res.status = 400 /\ ~http.invoked
          /\ (http.invoked /\ ~pipe.outcome.ok
                /\ pipe.outcome.thrown.name = "PipelineError") =>
               /\ res.status = 500
               /\ "step" \in DOMAIN res.data
               /\ res.data.step = pipe.outcome.thrown.step
               /\ res.data.message = pipe.outcome.thrown.message

\* a request whose pipeline failed at the structure stage was answered 500
C11_Witness ==
  /\ http.pc = "done"
  /\ http.invoked
  /\ http.responses[1].status = 500
  /\ http.responses[1].data.step = "structure"
  /\ Len(gatewayLog) = 2

-----------------------------------------------------------------------------
(* src/lib/patient-store.tsx *)

MaxPatients == 2
MaxAnalyses == 2

Names == {"Ann"}
Ages == {72}

PatientIds(ps) == {ps[i].id : i \in DOMAIN ps}

\* patients.find((p) => p.id === activePatientId) ?? null, as an id (0 is null)
activePatient(ps, activeId) == IF activeId \in PatientIds(ps) THEN activeId ELSE 0

\* { ...result, timestamp: Date.now() }
Analysis(result, now) ==
  [cleanedTranscript |-> result.cleanedTranscript,
   structuredData |-> result.structuredData,
   risks |-> result.risks,
   timestamp |-> now]

\* addAnalysisToActivePatient putting the new analysis last
addAnalysisLast(ps, capturedId, result, now) ==
  IF capturedId = 0 THEN ps
  ELSE [i \in DOMAIN ps |->
          IF ps[i].id = capturedId
          THEN [ps[i] EXCEPT !.analyses = @ \o <<Analysis(result, now)>>]
          ELSE ps[i]]

\* addAnalysisToActivePatient without the test of the patient's id
addAnalysisToEveryPatient(ps, capturedId, result, now) ==
  IF capturedId = 0 THEN ps
  ELSE [i \in DOMAIN ps |->
          [ps[i] EXCEPT !.analyses = <<Analysis(result, now)>> \o @]]

\* the callback addAnalysisToActivePatient of a render in which
\* activePatientId was capturedId, applied to the patients list ps
addAnalysisToActivePatient(ps, capturedId, result, now) ==
  IF capturedId = 0 THEN ps
  ELSE [i \in DOMAIN ps |->
          IF ps[i].id = capturedId
          THEN [ps[i] EXCEPT !.analyses = <<Analysis(result, now)>> \o @]
          ELSE ps[i]]

\* PatientPicker.handleAddPatient -> addPatient(name, age)
AddPatient ==
  /\ Len(patients) < MaxPatients
  /\ \E name \in Names, age \in Ages :
       LET id == Len(patients) + 1
       IN /\ patients' = Append(patients, [id |-> id, name |-> name, age |-> age,
                                           analyses |-> <<>>])
          /\ activePatientId' = id
          /\ lastEvent' = UserEvent
  /\ UNCHANGED <<apiKeyConfigured, orphaned, clientInstance, pipeVars, auxVars, callback, route, page, invocations,
                 clock>>

\* PatientPicker: setActivePatient(p.id) for a listed patient
SetActivePatient ==
  /\ \E id \in PatientIds(patients) \ {activePatientId} :
       /\ activePatientId' = id
       /\ lastEvent' = UserEvent
  /\ UNCHANGED <<apiKeyConfigured, orphaned, clientInstance, pipeVars, auxVars, callback, patients, route, page,
                 invocations, clock>>

-----------------------------------------------------------------------------
(* src/app/record/page.tsx: what the page is fed *)

\* what the user types or pastes into the textarea
TypedTranscripts == {<<>>, <<" ", "\n">>, <<" ", "Mild", " ", "fatigue.", " ">>}

DEMO_TRANSCRIPT ==
  <<"Patient was alert and oriented. Took morning medications at 9am without issues. Blood pressure was 128 over 82. Ate about 80% of breakfast. Noted mild fatigue but no dizziness. Mobility stable using walker. No falls reported.">>

\* the message of the TypeError a rejected fetch carries, the environment's
FetchRejectedMessage == "Failed to fetch"

\* the message of the SyntaxError res.json() rejects with when the body that
\* arrived is no complete JSON text, the environment's
JsonRejectedMessage == "Unterminated string in JSON at position 7"

-----------------------------------------------------------------------------
(* src/app/api/transcribe/route.ts *)

MAX_FILE_SIZE == 25 * 1024 * 1024

ALLOWED_TYPES ==
  <<"audio/webm", "audio/mp4", "audio/mpeg", "audio/mpga", "audio/wav", "audio/m4a">>

\* mimeType.startsWith(prefix)
startsWith(mimeType, prefix) ==
  Len(mimeType) >= Len(prefix) /\ SubSeq(mimeType, 1, Len(prefix)) = prefix

\* ALLOWED_TYPES.some((t) => mimeType === t || mimeType.startsWith(t + ";"))
isAllowed(mimeType) ==
  \E i \in DOMAIN ALLOWED_TYPES :
    mimeType = ALLOWED_TYPES[i] \/ startsWith(mimeType, ALLOWED_TYPES[i] \o ";")

\* client.audio.transcriptions.create resolving with a string or with a value
\* that is no string
TranscriptionText(t) == [kind |-> "string", text |-> t]
TranscriptionObject == [kind |-> "object", text |-> <<>>]

\* what client.audio.transcriptions.create settles with
WhisperAnswers ==
  {TranscriptionText(<<"Mild", " ", "fatigue.", "\n">>), TranscriptionText(<<" ">>),
   TranscriptionObject, Rejects(JsError("Connection error.")),
   Rejects(JsError("The OPENAI_API_KEY environment variable is missing"))}

\* a request whose body is neither multipart/form-data nor urlencoded:
\* request.formData() rejects with a TypeError
NotFormData == [type |-> "notFormData", size |-> 0]
FormDataTypeError ==
  [isError |-> TRUE, name |-> "TypeError",
   message |-> "Content-Type was not one of \"multipart/form-data\" or \"application/x-www-form-urlencoded\"."]

\* the catch block of POST
TranscribePOSTCatch(error) ==
  IF error.isError /\ MentionsApiKey(error.message)
  THEN Response(503, ErrorBody("Configuration error", error.message))
  ELSE Response(500, ErrorBody("Transcription failed",
                               "Could not transcribe audio. Please try again."))

\* the route has not answered: it goes on to the transcription call
Proceeds == [status |-> 0, ok |-> FALSE, data |-> [proceeds |-> TRUE]]

\* POST from the settled request.formData() up to getOpenAIClient(): the
\* response it returns, or Proceeds. form is NotFormData or the "audio" entry
\* of the form data (NullBlob when there is none or it is no File).
TranscribePOSTReadsForm(form) ==
  IF form = NotFormData
  THEN TranscribePOSTCatch(FormDataTypeError)
  ELSE IF form = NullBlob
  THEN Response(400, ErrorBody("Invalid request",
                               "Missing 'audio' file. Send as multipart/form-data."))
  ELSE IF form.size > MAX_FILE_SIZE
  THEN Response(400, ErrorBody("Invalid request", "Audio file must be under 25 MB."))
  ELSE IF ~isAllowed(form.type)
  THEN Response(400, ErrorBody("Invalid request",
                               "Unsupported audio format: " \o form.type
                                 \o ". Use webm, mp4, mp3, wav, or m4a."))
  ELSE Proceeds

\* POST from the settled client.audio.transcriptions.create to its return
TranscribePOSTAnswers(w) ==
  IF w.kind = "throw"
  THEN TranscribePOSTCatch(w.thrown)
  ELSE Response(200, [text |-> Trim(IF w.kind = "string" THEN w.text ELSE <<>>)])

\* POST(request) as a function of the environment, the body of the request
\* and what the transcription call settles with
TranscribePOST(configured, form, w) ==
  IF ~isOpenAIConfigured(configured)
  THEN Response(503, ErrorBody("Service unavailable", ServiceUnavailableMessage))
  ELSE IF TranscribePOSTReadsForm(form) # Proceeds
  THEN TranscribePOSTReadsForm(form)
  ELSE TranscribePOSTAnswers(w)

\* whether handling the request created the singleton client
TranscribePOSTCreatesClient(configured, form) ==
  isOpenAIConfigured(configured) /\ TranscribePOSTReadsForm(form) = Proceeds

\* the responses of the route to a request carrying the form
TranscribeResponses(configured, form) ==
  {TranscribePOST(configured, form, w) : w \in WhisperAnswers}

-----------------------------------------------------------------------------
(* src/app/record/page.tsx: handleAnalyze and the handlers around it *)

\* the Blobs VoiceRecorder hands over: the first MIME type of its list the
\* browser supports, and the bytes recorded
Recordings ==
  {Blob("audio/webm;codecs=opus", 48000), Blob("audio/ogg;codecs=opus", 48000),
   Blob("audio/webm;codecs=opus", MAX_FILE_SIZE + 1)}

\* what the gateway answers while the page's request is served
ServedCleanAnswers ==
  {Rejects(JsError("Request timed out.")),
   Completion(<<" ", "Mild", " ", "fatigue", " ", "noted.">>)}
ServedStructureAnswers ==
  {Rejects(NonError("rate limited")), Completion(DocVisitFenced)}
ServedAnalyzeAnswers ==
  {Completion(<<" ">>), Completion(DocRisksFenced)}

\* the responses of the route to a request carrying the body, for some
\* answers of the gateway
AnalyzeResponses(configured, instance, body) ==
  {POST(configured, instance, body, r1, r2, r3) :
     r1 \in ServedCleanAnswers, r2 \in ServedStructureAnswers,
     r3 \in ServedAnalyzeAnswers}

isLoading(status) == status = "transcribing" \/ status = "analyzing"

\* the Analyze button is rendered and enabled:
\* {activePatient && <Button disabled={isLoading || !activePatient}>}
AnalyzeEnabled ==
  /\ route = "record"
  /\ activePatient(patients, activePatientId) # 0
  /\ ~isLoading(page.status)

\* the server has not answered the request
NoResponse == [status |-> 0, ok |-> FALSE, data |-> [pending |-> TRUE]]

\* the route handling a request: the await POST is at ("none" before the
\* request has reached the server, "done" once POST has returned) and what
\* the pipeline holds by then
Served(pc, cleanedTranscript, structuredData) ==
  [pc |-> pc, cleanedTranscript |-> cleanedTranscript, structuredData |-> structuredData]
RouteAt(pc) == Served(pc, <<>>, NoStructuredData)

\* a handleAnalyze call that awaits: the stage it is in, the activePatientId
\* its addAnalysisToActivePatient closed over, the transcript or the audio
\* file its request carries, whether its RecordPage instance is still
\* mounted, the await it is at (fetch or res.json()), where the route
\* handling its request is and the response the server has sent
Invocation(stage, capturedId, text, audio) ==
  [stage |-> stage, capturedId |-> capturedId, text |-> text, audio |-> audio,
   mounted |-> TRUE, await |-> "fetch", server |-> RouteAt("none"),
   response |-> NoResponse]

\* the route returns the response
Returns(inv, res) == [inv EXCEPT !.server = RouteAt("done"), !.response = res]

RemoveAt(seq, k) == SubSeq(seq, 1, k - 1) \o SubSeq(seq, k + 1, Len(seq))

\* state setters of an unmounted component change nothing
SetPage(inv, new) == IF inv.mounted THEN new ELSE page

\* textarea onChange
TypeTranscript ==
  /\ route = "record"
  /\ activePatient(patients, activePatientId) # 0
  /\ ~isLoading(page.status)
  /\ \E t \in TypedTranscripts :
       /\ t # page.transcript
       /\ page' = [page EXCEPT !.transcript = t]
  /\ lastEvent' = UserEvent
  /\ UNCHANGED <<apiKeyConfigured, orphaned, clientInstance, pipeVars, auxVars, callback, patients, activePatientId,
                 route, invocations, clock>>

\* handleTryDemo: the button is rendered with the panels, {activePatient && ...},
\* and is not disabled while a request is awaited
TryDemo ==
  /\ route = "record"
  /\ activePatient(patients, activePatientId) # 0
  /\ page' = [page EXCEPT !.transcript = DEMO_TRANSCRIPT]
  /\ lastEvent' = UserEvent
  /\ UNCHANGED <<apiKeyConfigured, orphaned, clientInstance, pipeVars, auxVars, callback, patients, activePatientId,
                 route, invocations, clock>>

\* VoiceRecorder onRecordingComplete: setRecordingBlob(blob), also for a
\* recording made again
RecordingComplete ==
  /\ route = "record"
  /\ activePatient(patients, activePatientId) # 0
  /\ \E blob \in Recordings :
       /\ blob # page.recordingBlob
       /\ page' = [page EXCEPT !.recordingBlob = blob]
  /\ lastEvent' = UserEvent
  /\ UNCHANGED <<apiKeyConfigured, orphaned, clientInstance, pipeVars, auxVars, callback, patients, activePatientId,
                 route, invocations, clock>>

\* handleAnalyze up to its first await, without the test of the text
ClickAnalyzeUnvalidated ==
  /\ AnalyzeEnabled
  /\ clock + Len(invocations) + Len(orphaned) < MaxAnalyses
  /\ page' = [page EXCEPT !.status = "analyzing", !.errorMessage = "null"]
  /\ invocations' =
       Append(invocations,
              Invocation("analyzing", activePatientId, Trim(page.transcript), NullBlob))
  /\ lastEvent' = [op |-> "analyzeRequested", text |-> Trim(page.transcript),
                   capturedId |-> activePatientId]
  /\ UNCHANGED <<apiKeyConfigured, orphaned, clientInstance, pipeVars, auxVars, callback, patients,
                 activePatientId, route, clock>>

\* handleAnalyze up to its first await
ClickAnalyze ==
  /\ AnalyzeEnabled
  /\ clock + Len(invocations) + Len(orphaned) < MaxAnalyses
  /\ LET textToAnalyze == Trim(page.transcript)
     IN IF activePatient(patients, activePatientId) = 0
        THEN /\ page' = [page EXCEPT !.status = "error",
                           !.errorMessage = "Please select a patient from the dropdown above."]
             /\ lastEvent' = [op |-> "analyzeRefused"]
             /\ UNCHANGED invocations
        ELSE IF textToAnalyze = <<>> /\ page.recordingBlob # NullBlob
        THEN /\ page' = [page EXCEPT !.status = "transcribing", !.errorMessage = "null"]
             /\ invocations' =
                  Append(invocations,
                         Invocation("transcribing", activePatientId, <<>>,
                                    page.recordingBlob))
             /\ lastEvent' = [op |-> "transcribeRequested"]
        ELSE IF textToAnalyze = <<>>
        THEN /\ page' = [page EXCEPT !.status = "error",
                           !.errorMessage = "Please record voice notes, enter text, or paste a transcript. The textarea is empty."]
             /\ lastEvent' = [op |-> "analyzeRefused"]
             /\ UNCHANGED invocations
        ELSE /\ page' = [page EXCEPT !.status = "analyzing", !.errorMessage = "null"]
             /\ invocations' =
                  Append(invocations,
                         Invocation("analyzing", activePatientId, textToAnalyze, NullBlob))
             /\ lastEvent' = [op |-> "analyzeRequested", text |-> textToAnalyze,
                              capturedId |-> activePatientId]
  /\ UNCHANGED <<apiKeyConfigured, orphaned, clientInstance, pipeVars, auxVars, callback, patients, activePatientId,
                 route, clock>>

\* The route of /api/analyze handling the request req from one await to the
\* next: the states req can be in after the step. At "none" the request
\* reaches the server and POST runs up to await request.json(), or returns 503
\* before it; at "json" the body is read (the page sends { transcript }) and
\* POST returns 400, or calls analyzeCaregiverTranscript(trimmed), which
\* creates the client and runs up to the await of the clean call; at "clean",
\* "structure" and "analyze" the gateway call settles and the pipeline goes on
\* to its next call, or POST returns the result or what its catch makes of
\* the error.
AnalyzeRouteNext(req) ==
  CASE req.server.pc = "none" ->
         {IF ~isOpenAIConfigured(apiKeyConfigured)
          THEN Returns(req, Response(503, ErrorBody("Service unavailable",
                                                    ServiceUnavailableMessage)))
          ELSE [req EXCEPT !.server = RouteAt("json")]}
    [] req.server.pc = "json" ->
         {IF Trim(req.text) = <<>>
          THEN Returns(req, Response(400, ErrorBody("Invalid request",
                                                    "'transcript' cannot be empty.")))
          ELSE [req EXCEPT !.server = RouteAt("clean")]}
    [] req.server.pc = "clean" ->
         {IF cleanStep(r).ok
          THEN [req EXCEPT !.server = Served("structure", cleanStep(r).value,
                                             NoStructuredData)]
          ELSE Returns(req, POSTCatch(cleanStep(r).thrown)) : r \in ServedCleanAnswers}
    [] req.server.pc = "structure" ->
         {IF structureStep(r).ok
          THEN [req EXCEPT !.server = Served("analyze", req.server.cleanedTranscript,
                                             structureStep(r).value)]
          ELSE Returns(req, POSTCatch(structureStep(r).thrown)) :
            r \in ServedStructureAnswers}
    [] req.server.pc = "analyze" ->
         {Returns(req, IF analyzeStep(r).ok
                       THEN Response(200, PipelineResult(req.server.cleanedTranscript,
                                                         req.server.structuredData,
                                                         analyzeStep(r).value))
                       ELSE POSTCatch(analyzeStep(r).thrown)) : r \in ServedAnalyzeAnswers}
    [] OTHER -> {}

\* The route of /api/transcribe handling the request req from one await to
\* the next: the states req can be in after the step. At "none" the request
\* reaches the server and POST runs up to await request.formData(), or returns
\* 503 before it; at "formData" the form data is read (the page sends FormData
\* holding the recording) and POST returns 400, or creates the client and runs
\* up to await client.audio.transcriptions.create; at "transcription" the call
\* settles and POST returns.
TranscribeRouteNext(req) ==
  CASE req.server.pc = "none" ->
         {IF ~isOpenAIConfigured(apiKeyConfigured)
          THEN Returns(req, Response(503, ErrorBody("Service unavailable",
                                                    ServiceUnavailableMessage)))
          ELSE [req EXCEPT !.server = RouteAt("formData")]}
    [] req.server.pc = "formData" ->
         {IF TranscribePOSTReadsForm(req.audio) # Proceeds
          THEN Returns(req, TranscribePOSTReadsForm(req.audio))
          ELSE [req EXCEPT !.server = RouteAt("transcription")]}
    [] req.server.pc = "transcription" ->
         {Returns(req, TranscribePOSTAnswers(w)) : w \in WhisperAnswers}
    [] OTHER -> {}

\* getOpenAIClient() is called in the step that takes a route to the await of
\* its first gateway call
CreatesClient(req) == req.server.pc \in {"transcription", "clean"}

\* the step of the route handling the request of invocation k that starts at pc
RouteOfInvocationSteps(k, stage, pc) ==
  LET inv == invocations[k]
  IN /\ inv.stage = stage
     /\ inv.await = "fetch"
     /\ inv.server.pc = pc
     /\ \E next \in (IF stage = "transcribing" THEN TranscribeRouteNext(inv)
                      ELSE AnalyzeRouteNext(inv)) :
          /\ invocations' = [invocations EXCEPT ![k] = next]
          /\ clientInstance' = (clientInstance \/ CreatesClient(next))
     /\ lastEvent' = UserEvent
     /\ UNCHANGED <<apiKeyConfigured, orphaned, pipeVars, auxVars, callback, patients,
                    activePatientId, route, page, clock>>

\* A request of /api/transcribe reaches the server: POST runs up to
\* await request.formData(), or returns 503 before it
TranscribeRouteStarts ==
  \E k \in DOMAIN invocations : RouteOfInvocationSteps(k, "transcribing", "none")

\* request.formData() settles: POST returns 400, or creates the client and
\* runs up to await client.audio.transcriptions.create
TranscribeRouteReadsForm ==
  \E k \in DOMAIN invocations : RouteOfInvocationSteps(k, "transcribing", "formData")

\* client.audio.transcriptions.create settles and POST returns
TranscribeRouteReturns ==
  \E k \in DOMAIN invocations : RouteOfInvocationSteps(k, "transcribing", "transcription")

\* A route goes on handling a request whose fetch has rejected; what it
\* returns reaches no one
OrphanedRouteRuns ==
  /\ \E k \in DOMAIN orphaned :
       \E next \in (IF orphaned[k].stage = "transcribing"
                    THEN TranscribeRouteNext(orphaned[k])
                    ELSE AnalyzeRouteNext(orphaned[k])) :
         /\ orphaned' = IF next.server.pc = "done" THEN RemoveAt(orphaned, k)
                        ELSE [orphaned EXCEPT ![k] = next]
         /\ clientInstance' = (clientInstance \/ CreatesClient(next))
  /\ lastEvent' = UserEvent
  /\ UNCHANGED <<apiKeyConfigured, pipeVars, auxVars, callback, patients,
                 activePatientId, route, page, invocations, clock>>

\* fetch rejects for the invocation inv: a route that is handling its request
\* runs on, a request that has not reached the server is lost
OrphanedBy(inv) ==
  IF inv.server.pc \in {"none", "done"} THEN orphaned
  ELSE Append(orphaned, [stage |-> inv.stage, text |-> inv.text, audio |-> inv.audio,
                         server |-> inv.server, response |-> NoResponse])

\* the catch block around the requests of handleAnalyze, for an Error
CatchSetsError(inv, message) ==
  SetPage(inv, [page EXCEPT !.status = "error", !.errorMessage = message])

\* await fetch("/api/transcribe") settles: it resolves once the response has
\* arrived, or rejects, wherever the route is by then
TranscribeFetchSettles ==
  \E k \in DOMAIN invocations :
    LET inv == invocations[k]
    IN /\ inv.stage = "transcribing"
       /\ inv.await = "fetch"
       /\ \/ /\ inv.response # NoResponse
             /\ invocations' = [invocations EXCEPT ![k].await = "json"]
             /\ lastEvent' = [op |-> "fetchResolved"]
             /\ UNCHANGED <<page, orphaned>>
          \/ /\ page' = CatchSetsError(inv, FetchRejectedMessage)
             /\ invocations' = RemoveAt(invocations, k)
             /\ orphaned' = OrphanedBy(inv)
             /\ lastEvent' = [op |-> "transcribeFailed"]
       /\ UNCHANGED <<apiKeyConfigured, clientInstance, pipeVars, auxVars, callback,
                      patients, activePatientId, route, clock>>

\* await transcribeRes.json() settles and handleAnalyze runs up to its next
\* await or its end
TranscribeResponds ==
  \E k \in DOMAIN invocations :
    /\ invocations[k].stage = "transcribing"
    /\ invocations[k].await = "json"
    /\ \E parsed \in BOOLEAN :
         LET inv == invocations[k]
             res == inv.response
             textToAnalyze == IF res.ok THEN Trim(res.data.text) ELSE <<>>
         IN IF ~parsed
            THEN /\ page' = CatchSetsError(inv, JsonRejectedMessage)
                 /\ invocations' = RemoveAt(invocations, k)
                 /\ lastEvent' = [op |-> "transcribeFailed"]
            ELSE IF ~res.ok
            THEN /\ page' = CatchSetsError(inv, res.data.message)
                 /\ invocations' = RemoveAt(invocations, k)
                 /\ lastEvent' = [op |-> "transcribeFailed"]
            ELSE IF textToAnalyze = <<>>
            THEN /\ page' = SetPage(inv, [page EXCEPT !.status = "error",
                                            !.transcript = textToAnalyze,
                                            !.errorMessage = "No speech detected in recording."])
                 /\ invocations' = RemoveAt(invocations, k)
                 /\ lastEvent' = [op |-> "transcribeFailed"]
            ELSE /\ page' = SetPage(inv, [page EXCEPT !.status = "analyzing",
                                            !.transcript = textToAnalyze,
                                            !.errorMessage = "null"])
                 /\ invocations' =
                      [invocations EXCEPT
                         ![k] = [Invocation("analyzing", inv.capturedId, textToAnalyze,
                                            NullBlob)
                                   EXCEPT !.mounted = inv.mounted]]
                 /\ lastEvent' = [op |-> "analyzeRequested", text |-> textToAnalyze,
                                  capturedId |-> inv.capturedId]
    /\ UNCHANGED <<apiKeyConfigured, orphaned, clientInstance, pipeVars, auxVars, callback, patients,
                   activePatientId, route, clock>>

\* the activePatientId a resumed handleAnalyze appends to taken from the
\* store's current state
latestActivePatientId(capturedId, currentId) == currentId

\* the activePatientId a resumed handleAnalyze appends to: the one its
\* addAnalysisToActivePatient closed over when the click was handled
closureActivePatientId(capturedId, currentId) == capturedId

\* the patients list after handleAnalyze read the response, without the
\* res.ok test
patientsAfterAnyResponse(ps, id, res, now) ==
  addAnalysisToActivePatient(ps, id,
    IF res.ok THEN res.data
    ELSE PipelineResult(<<>>, createEmptyStructuredData, [risk_flags |-> <<>>]),
    now)

\* the patients list after handleAnalyze read the response of /api/analyze
patientsAfterResponse(ps, id, res, now) ==
  IF res.ok THEN addAnalysisToActivePatient(ps, id, res.data, now) ELSE ps

\* A request of /api/analyze reaches the server: POST runs up to
\* await request.json(), or returns 503 before it
AnalyzeRouteStarts ==
  \E k \in DOMAIN invocations : RouteOfInvocationSteps(k, "analyzing", "none")

\* request.json() settles with the object the page sent, { transcript }:
\* POST returns 400, or calls analyzeCaregiverTranscript(trimmed), which
\* creates the client and runs up to the await of the clean call
AnalyzeRouteValidates ==
  \E k \in DOMAIN invocations : RouteOfInvocationSteps(k, "analyzing", "json")

\* the clean call of a served request settles: the pipeline goes on to the
\* structure call, or POST catches and returns
ServedCleanReturns ==
  \E k \in DOMAIN invocations : RouteOfInvocationSteps(k, "analyzing", "clean")

\* the structure call of a served request settles
ServedStructureReturns ==
  \E k \in DOMAIN invocations : RouteOfInvocationSteps(k, "analyzing", "structure")

\* the analyze call of a served request settles and POST returns
ServedAnalyzeReturns ==
  \E k \in DOMAIN invocations : RouteOfInvocationSteps(k, "analyzing", "analyze")

\* await fetch("/api/analyze") settles: it resolves once the response has
\* arrived, or rejects, wherever the route is by then
AnalyzeFetchSettles ==
  \E k \in DOMAIN invocations :
    LET inv == invocations[k]
    IN /\ inv.stage = "analyzing"
       /\ inv.await = "fetch"
       /\ \/ /\ inv.response # NoResponse
             /\ invocations' = [invocations EXCEPT ![k].await = "json"]
             /\ lastEvent' = [op |-> "fetchResolved"]
             /\ UNCHANGED <<page, orphaned>>
          \/ /\ page' = CatchSetsError(inv, FetchRejectedMessage)
             /\ invocations' = RemoveAt(invocations, k)
             /\ orphaned' = OrphanedBy(inv)
             /\ lastEvent' = [op |-> "analyzeFailed", status |-> 0]
       /\ UNCHANGED <<apiKeyConfigured, clientInstance, pipeVars, auxVars, callback,
                      patients, activePatientId, route, clock>>

\* await res.json() settles and handleAnalyze runs to its end
AnalyzeResponds ==
  \E k \in DOMAIN invocations :
    /\ invocations[k].stage = "analyzing"
    /\ invocations[k].await = "json"
    /\ \E parsed \in BOOLEAN :
         LET inv == invocations[k]
             res == inv.response
             id == closureActivePatientId(inv.capturedId, activePatientId)
             others == RemoveAt(invocations, k)
         IN IF ~parsed
            THEN /\ page' = CatchSetsError(inv, JsonRejectedMessage)
                 /\ invocations' = others
                 /\ lastEvent' = [op |-> "analyzeFailed", status |-> res.status]
                 /\ UNCHANGED <<patients, clock, route>>
            ELSE /\ patients' = patientsAfterResponse(patients, id, res, clock + 1)
                 /\ clock' = IF res.ok THEN clock + 1 ELSE clock
                 /\ invocations' =
                      IF res.ok
                      THEN [j \in DOMAIN others |-> [others[j] EXCEPT !.mounted = FALSE]]
                      ELSE others
                 /\ route' = IF res.ok THEN "insights" ELSE route
                 /\ page' = IF res.ok
                            THEN (IF route = "record" THEN FreshPage ELSE page)
                            ELSE CatchSetsError(inv, res.data.message)
                 /\ lastEvent' =
                      IF res.ok
                      THEN [op |-> "analyzeSucceeded", status |-> res.status,
                            capturedId |-> inv.capturedId]
                      ELSE [op |-> "analyzeFailed", status |-> res.status]
    /\ UNCHANGED <<apiKeyConfigured, orphaned, clientInstance, pipeVars, auxVars, activePatientId,
                   callback>>

\* a navigation link: leaving /record unmounts RecordPage, entering it mounts
\* a new instance with the initial state
Navigate ==
  /\ \E to \in {"record", "insights"} \ {route} :
       /\ route' = to
       /\ page' = FreshPage
       /\ invocations' = [j \in DOMAIN invocations |->
                            [invocations[j] EXCEPT !.mounted = FALSE]]
       /\ lastEvent' = UserEvent
  /\ UNCHANGED <<apiKeyConfigured, orphaned, clientInstance, pipeVars, auxVars, callback, patients, activePatientId,
                 clock>>

\* the response a route returned await by await is the response of POST
RouteStepsMakePOST ==
  \A k \in DOMAIN invocations :
    LET inv == invocations[k]
    IN inv.response # NoResponse =>
         IF inv.stage = "transcribing"
         THEN inv.response \in TranscribeResponses(apiKeyConfigured, inv.audio)
         ELSE inv.response \in AnalyzeResponses(apiKeyConfigured, clientInstance,
                                                BodyWithTranscript(inv.text))

Init ==
  /\ apiKeyConfigured \in BOOLEAN
  /\ clientInstance = FALSE
  /\ pipe = PipeIdle
  /\ gatewayLog = <<>>
  /\ StoreIdle
  /\ AuxIdle

Next ==
  \/ AddPatient
  \/ SetActivePatient
  \/ TypeTranscript
  \/ TryDemo
  \/ RecordingComplete
  \/ ClickAnalyze
  \/ TranscribeRouteStarts
  \/ TranscribeRouteReadsForm
  \/ TranscribeRouteReturns
  \/ TranscribeFetchSettles
  \/ TranscribeResponds
  \/ AnalyzeRouteStarts
  \/ AnalyzeRouteValidates
  \/ ServedCleanReturns
  \/ ServedStructureReturns
  \/ ServedAnalyzeReturns
  \/ AnalyzeFetchSettles
  \/ AnalyzeResponds
  \/ OrphanedRouteRuns
  \/ Navigate

Spec == Init /\ [][Next]_vars

-----------------------------------------------------------------------------
(* The session store driven through its interface *)

\* results a caller can hand to addAnalysisToActivePatient
StoreResults ==
  {res.data : res \in
     {r \in AnalyzeResponses(TRUE, FALSE,
                             BodyWithTranscript(<<"Mild", " ", "fatigue.">>)) : r.ok}}

\* setActivePatient(null)
ClearActivePatient ==
  /\ activePatientId # 0
  /\ activePatientId' = 0
  /\ lastEvent' = UserEvent
  /\ UNCHANGED <<apiKeyConfigured, orphaned, clientInstance, pipeVars, auxVars, callback, patients, route,
                 page, invocations, clock>>

\* a consumer renders and takes the addAnalysisToActivePatient of this render:
\* useCallback(..., [activePatientId])
TakeCallback ==
  /\ callback # activePatientId
  /\ callback' = activePatientId
  /\ lastEvent' = UserEvent
  /\ UNCHANGED <<apiKeyConfigured, orphaned, clientInstance, pipeVars, auxVars, patients, activePatientId,
                 route, page, invocations, clock>>

\* the appends followed when the store is driven alone
MaxStoreAnalyses == 3

\* the consumer calls the addAnalysisToActivePatient it holds
CallAddAnalysis ==
  /\ clock < MaxStoreAnalyses
  /\ \E result \in StoreResults :
       /\ patients' = addAnalysisToActivePatient(patients, callback, result, clock + 1)
       /\ clock' = IF callback = 0 THEN clock ELSE clock + 1
       /\ lastEvent' = [op |-> "addAnalysisCalled", capturedId |-> callback]
  /\ UNCHANGED <<apiKeyConfigured, orphaned, clientInstance, pipeVars, auxVars, callback, activePatientId,
                 route, page, invocations>>

NextStore ==
  \/ AddPatient
  \/ SetActivePatient
  \/ ClearActivePatient
  \/ TakeCallback
  \/ CallAddAnalysis

SpecStore == Init /\ [][NextStore]_vars

-----------------------------------------------------------------------------
(* Claims about the session store and the record page *)

\* a step of handleAnalyze that ended in a failure
AttemptFailed(e) == e.op \in {"transcribeFailed", "analyzeFailed", "analyzeRefused"}

\* some patient's analyses list differs after the step, or the patient is gone
HistoryChanged ==
  \E i \in DOMAIN patients :
    \/ i \notin DOMAIN patients'
    \/ patients'[i].id # patients[i].id
    \/ patients'[i].analyses # patients[i].analyses

\* C6: from the record page a patient's history changes only in the step in
\* which the analyze request completed with an ok response; a step in which
\* transcription failed, the pipeline failed at some stage or the response
\* was not ok leaves the patients list and every analyses list as they were.
C6_HistoryChangesOnlyOnSuccess ==
  [][/\ HistoryChanged =>
          /\ lastEvent'.op = "analyzeSucceeded"
          /\ lastEvent'.status = 200
     /\ AttemptFailed(lastEvent') => patients' = patients]_vars

\* a pipeline failure reported by the route after an earlier analysis was stored
C6_Witness ==
  /\ lastEvent.op = "analyzeFailed"
  /\ lastEvent.status = 500
  /\ page.status = "error"
  /\ page.errorMessage = "No output from risk analysis step"
  /\ \E i \in DOMAIN patients : Len(patients[i].analyses) = 1

\* C7: in every step of the store no patient is removed, and each patient's
\* analyses either stay as they are or get one new analysis at index 0 with
\* the earlier analyses behind it, in their order and with their content.
C7_HistoryGrowsAtHead ==
  [][/\ Len(patients') >= Len(patients)
     /\ \A i \in DOMAIN patients :
          LET old == patients[i].analyses
              new == patients'[i].analyses
          IN /\ patients'[i].id = patients[i].id
             /\ \/ new = old
                \/ /\ Len(new) = Len(old) + 1
                   /\ Tail(new) = old
                   /\ new[1].timestamp = clock']_vars

\* an append landed on a history of two analyses: the patient holds three, the
\* latest first and the two earlier ones behind it in their order
C7_Witness ==
  \E i \in DOMAIN patients :
    /\ lastEvent.op = "addAnalysisCalled"
    /\ Len(patients[i].analyses) = 3
    /\ patients[i].analyses[1].timestamp = 3
    /\ patients[i].analyses[2].timestamp = 2
    /\ patients[i].analyses[3].timestamp = 1

\* the frame of a call of addAnalysisToActivePatient, given the id of the
\* patient the call may change (0 for none)
OnlyPatientChanged(id) ==
  /\ Len(patients') = Len(patients)
  /\ \A i \in DOMAIN patients :
       /\ patients'[i].id = patients[i].id
       /\ patients'[i].name = patients[i].name
       /\ patients'[i].age = patients[i].age
       /\ patients[i].id # id => patients'[i] = patients[i]
  /\ activePatientId' = activePatientId
  /\ id = 0 => patients' = patients

\* C8 as stated: a call of addAnalysisToActivePatient changes at most the
\* analyses of the patient that is active when the call is made, and nothing
\* when no patient is active then.
C8_OnlyActivePatientChanged ==
  [][lastEvent'.op = "addAnalysisCalled" => OnlyPatientChanged(activePatientId)]_vars

\* C8 amended: a call of addAnalysisToActivePatient changes at most the
\* analyses of the patient that was active in the render the called function
\* comes from; every other record, the order of the list and activePatientId
\* stay, and the call changes nothing when that render had no active patient.
C8_OnlyCapturedPatientChanged ==
  [][lastEvent'.op = "addAnalysisCalled" =>
       OnlyPatientChanged(lastEvent'.capturedId)]_vars

\* a call was made with two patients in the list, one of them holding an
\* analysis that the call had to leave alone
C8_Witness ==
  /\ lastEvent.op = "addAnalysisCalled"
  /\ Len(patients) = 2
  /\ \E i, j \in DOMAIN patients :
       /\ patients[i].id = lastEvent.capturedId
       /\ j # i
       /\ Len(patients[i].analyses) = 1
       /\ Len(patients[j].analyses) = 1

\* C9: when the analyze request of the record page completes, the result is
\* appended to the patient that was active when the analysis was started and
\* to no other patient, whatever the active patient is by then.
C9_AppendedToPatientOfStart ==
  [][lastEvent'.op = "analyzeSucceeded" =>
       \A i \in DOMAIN patients :
         /\ i \in DOMAIN patients'
         /\ (patients'[i].analyses # patients[i].analyses)
              <=> (patients[i].id = lastEvent'.capturedId)]_vars

\* a result arrived after the active patient was switched and went to the
\* patient of the start
C9_Witness ==
  /\ lastEvent.op = "analyzeSucceeded"
  /\ activePatientId # lastEvent.capturedId
  /\ \E i, j \in DOMAIN patients :
       /\ patients[i].id = lastEvent.capturedId
       /\ patients[j].id = activePatientId
       /\ Len(patients[i].analyses) = 1
       /\ patients[j].analyses = <<>>

\* C10: at most one request of handleAnalyze (transcribe or analyze) is in
\* flight at any time.
C10_AtMostOneInFlight == Len(invocations) <= 1

\* C12: the record page issues a request to /api/analyze only for a text
\* that is non-empty once trimmed and only with an active patient selected:
\* every request in flight carries such a text and the id of a listed patient,
\* a click starts one only when the trimmed transcript is non-empty, and a
\* click that is refused puts the page in the error status and starts nothing.
C12_NoAnalyzeRequestForEmptyInput ==
  [][/\ \A k \in DOMAIN invocations' :
          invocations'[k].stage = "analyzing" =>
            /\ invocations'[k].text # <<>>
            /\ Trim(invocations'[k].text) = invocations'[k].text
            /\ invocations'[k].capturedId \in PatientIds(patients')
     /\ (/\ Len(invocations') > Len(invocations)
         /\ invocations'[Len(invocations')].stage = "analyzing") =>
          /\ activePatient(patients, activePatientId) # 0
          /\ Trim(page.transcript) # <<>>
          /\ invocations'[Len(invocations')].text = Trim(page.transcript)
     /\ lastEvent'.op = "analyzeRefused" =>
          /\ page'.status = "error"
          /\ invocations' = invocations]_vars

\* Analyze was clicked with a whitespace-only transcript and no recording
C12_Witness ==
  /\ lastEvent.op = "analyzeRefused"
  /\ page.status = "error"
  /\ page.transcript = <<" ", "\n">>
  /\ page.recordingBlob = NullBlob
  /\ invocations = <<>>

-----------------------------------------------------------------------------
(* The parsing helpers of pipeline.ts applied to model output *)

MaxItems == 3
MaxTextLen == 4

SeverityWords ==
  {"low", "Low", "LOW", "medium", "Medium", "MEDIUM", "moderate", "Moderate",
   "MODERATE", "high", "High", "HIGH", "urgent", "Urgent", "URGENT", "critical",
   "Critical", "severe"}

\* values the model can put in the severity property, undefined when it is absent
SeverityValues ==
  {JStr(<<w>>) : w \in SeverityWords}
    \cup {JStr(<<>>), JStr(<<" ", "high">>), JStr(<<"high", " ">>),
          JStr(<<"very", " ", "high">>), JStr(<<"medium", "high">>)}
    \cup {JNum(0), JNum(3), JNull, JUndefined, JArr(<<JStr(<<"high">>)>>),
          JObj([severity |-> JStr(<<"high">>)])}

\* values the model can put in care_level_indicator
CareLevelValues ==
  {JStr(t) : t \in {<<"stable">>, <<"watch">>, <<"attention_needed">>, <<"Watch">>,
                    <<"STABLE">>, <<" ", "watch">>, <<"watch", " ">>,
                    <<"attention", " ", "needed">>, <<"critical">>, <<>>}}
    \cup {JNum(1), JNull, JUndefined, JArr(<<JStr(<<"watch">>)>>),
          JObj([level |-> JStr(<<"watch">>)])}

\* elements the model can put in a list
ListElements ==
  {JStr(<<"Alert">>), JStr(<<"Dizzy", " ", "spells">>), JNum(5), JNull}

ArrayValues ==
  {JArr(items) : items \in UNION {[1..n -> ListElements] : n \in 0..MaxItems}}

ListFields ==
  {"key_observations", "activities_completed", "medication_notes", "concerns",
   "suggested_followups"}

FieldKeys == ListFields \cup {"visit_summary", "care_level_indicator"}

\* parsed model objects: one property set, the others absent
ParsedObjects ==
  {JObj(k :> v) : k \in FieldKeys,
                  v \in ArrayValues \cup CareLevelValues \cup {JStr(<<"none">>)}}
    \cup {JObj(<<>>), JArr(<<JStr(<<"Alert">>)>>)}

TextChunks == {" ", "{", "}", Fence, "json", "x"}

\* response texts of up to MaxTextLen chunks
ResponseTexts == UNION {[1..n -> TextChunks] : n \in 0..MaxTextLen}

Applied(fn, input, output) == [fn |-> fn, input |-> input, output |-> output]

ApplyNormalizeSeverity ==
  /\ calc = CalcIdle
  /\ \E v \in SeverityValues :
       calc' = Applied("normalizeSeverity", v, normalizeSeverity(v))
  /\ UNCHANGED <<apiKeyConfigured, clientInstance, pipeVars, storeVars, http, session>>

ApplyParseRiskAnalysis ==
  /\ calc = CalcIdle
  /\ \E r \in AnalyzeAnswers :
       /\ Usable(r)
       /\ calc' = Applied("parseRiskAnalysis", r.content,
                          parseRiskAnalysis(Trim(r.content)).value)
  /\ UNCHANGED <<apiKeyConfigured, clientInstance, pipeVars, storeVars, http, session>>

ApplyNormalizeStructuredData ==
  /\ calc = CalcIdle
  /\ \E parsed \in ParsedObjects :
       calc' = Applied("normalizeStructuredData", parsed, normalizeStructuredData(parsed))
  /\ UNCHANGED <<apiKeyConfigured, clientInstance, pipeVars, storeVars, http, session>>

ApplyParseStructuredData ==
  /\ calc = CalcIdle
  /\ \E r \in StructureAnswers :
       /\ Usable(r)
       /\ calc' = Applied("parseStructuredData", r.content,
                          parseStructuredData(Trim(r.content)).value)
  /\ UNCHANGED <<apiKeyConfigured, clientInstance, pipeVars, storeVars, http, session>>

ApplyExtractJson ==
  /\ calc = CalcIdle
  /\ \E content \in ResponseTexts :
       calc' = Applied("extractJson", content, extractJson(content))
  /\ UNCHANGED <<apiKeyConfigured, clientInstance, pipeVars, storeVars, http, session>>

NextParse ==
  \/ ApplyNormalizeSeverity
  \/ ApplyParseRiskAnalysis
  \/ ApplyNormalizeStructuredData
  \/ ApplyParseStructuredData
  \/ ApplyExtractJson

SpecParse == Init /\ [][NextParse]_vars

-----------------------------------------------------------------------------
(* Claims about the parsing helpers, checked under SpecParse *)

Severities == {<<"low">>, <<"medium">>, <<"high">>}
MediumSpellings == {"medium", "Medium", "MEDIUM", "moderate", "Moderate", "MODERATE"}
HighSpellings == {"high", "High", "HIGH", "urgent", "Urgent", "URGENT"}

\* v is a string that consists of one of the words
SpelledAs(v, words) == v.type = "string" /\ Len(v.text) = 1 /\ v.text[1] \in words

\* C13: normalizeSeverity returns low, medium or high for every value: medium
\* for medium and moderate in any case, high for high and urgent in any case,
\* low for every other string, every non-string and undefined; and every risk
\* flag parseRiskAnalysis returns has one of the three severities.
C13_SeverityTotal ==
  /\ calc.fn = "normalizeSeverity" =>
       /\ calc.output \in Severities
       /\ calc.output = IF SpelledAs(calc.input, MediumSpellings) THEN <<"medium">>
                        ELSE IF SpelledAs(calc.input, HighSpellings) THEN <<"high">>
                        ELSE <<"low">>
  /\ calc.fn = "parseRiskAnalysis" =>
       \A i \in DOMAIN calc.output.risk_flags :
         calc.output.risk_flags[i].severity \in Severities

\* the upper-case spelling of urgent was normalised to high
C13_Witness ==
  /\ calc.fn = "normalizeSeverity"
  /\ calc.input = JStr(<<"URGENT">>)
  /\ calc.output = <<"high">>

CareLevels == {<<"stable">>, <<"watch">>, <<"attention_needed">>}

\* the calls that produce a structured record
ProducesRecord == calc.fn \in {"normalizeStructuredData", "parseStructuredData"}

\* C14: the care level of every structured record is stable, watch or
\* attention_needed, and it is the model's value only when that value is
\* exactly one of the three literals; for every other value it is stable.
C14_CareLevelDefaultsToStable ==
  /\ ProducesRecord => calc.output.care_level_indicator \in CareLevels
  /\ calc.fn = "normalizeStructuredData" =>
       LET v == Prop(calc.input, "care_level_indicator")
       IN calc.output.care_level_indicator =
            IF v.type = "string" /\ v.text \in CareLevels THEN v.text ELSE <<"stable">>

\* a care level in another case was replaced by stable
C14_Witness ==
  /\ calc.fn = "normalizeStructuredData"
  /\ Prop(calc.input, "care_level_indicator") = JStr(<<"Watch">>)
  /\ calc.output.care_level_indicator = <<"stable">>

\* C15: each list field of the normalised record has the length of the
\* model's array, with every string element at its index and the empty string
\* in place of every other element; it is empty when the model's value is
\* absent or no array.
C15_ListsKeepLengthAndIndex ==
  calc.fn = "normalizeStructuredData" =>
    \A f \in ListFields :
      LET v == Prop(calc.input, f)
          out == calc.output[f]
      IN IF v.type = "array"
         THEN /\ Len(out) = Len(v.items)
              /\ \A i \in 1..Len(out) :
                   out[i] = IF v.items[i].type = "string" THEN v.items[i].text ELSE <<>>
         ELSE out = <<>>

\* a list of three elements whose second element is no string
C15_Witness ==
  /\ calc.fn = "normalizeStructuredData"
  /\ Prop(calc.input, "concerns") = JArr(<<JStr(<<"Alert">>), JNum(5), JStr(<<"Alert">>)>>)
  /\ calc.output.concerns = <<<<"Alert">>, <<>>, <<"Alert">>>>

\* the texts of the string elements of a model value, when it is an array
StringTextsOf(v) ==
  IF v.type = "array"
  THEN {v.items[i].text : i \in {j \in DOMAIN v.items : v.items[j].type = "string"}}
  ELSE {}

\* C16: in every structured record stage 2 produces each list field is
\* present and is a sequence of strings; an element is the text of a string
\* element of the model's list or the empty string, and nothing of an element
\* that is no string reaches the record.
C16_ListsAreStringSequences ==
  /\ ProducesRecord =>
       \A f \in ListFields :
         /\ f \in DOMAIN calc.output
         /\ DOMAIN calc.output[f] = 1..Len(calc.output[f])
         /\ \A i \in DOMAIN calc.output[f] : calc.output[f][i] \in Seq(STRING)
  /\ calc.fn = "normalizeStructuredData" =>
       \A f \in ListFields :
         \A i \in DOMAIN calc.output[f] :
           calc.output[f][i] \in StringTextsOf(Prop(calc.input, f)) \cup {<<>>}

\* a completion whose key_observations hold a number and whose concerns are a
\* string was parsed
C16_Witness ==
  /\ calc.fn = "parseStructuredData"
  /\ calc.input = DocVisit
  /\ calc.output.key_observations = <<<<"Alert">>, <<>>>>
  /\ calc.output.concerns = <<>>
  /\ calc.output.medication_notes = <<>>

\* the positions of a chunk in a text
Positions(t, c) == {i \in 1..Len(t) : t[i] = c}
Least(S) == CHOOSE i \in S : \A j \in S : i <= j
Greatest(S) == CHOOSE i \in S : \A j \in S : i >= j

\* the text between the first fence, with its json tag, and the next fence
FirstCodeBlock(t) ==
  LET open == Least(Positions(t, Fence))
      from == IF t[open + 1] = "json" THEN open + 2 ELSE open + 1
      close == Least({j \in Positions(t, Fence) : j >= from})
  IN SubSeq(t, from, close - 1)

\* C17: extractJson returns the trimmed body of the first fenced code block
\* when the trimmed text has one; otherwise the part from the first opening
\* brace to the last closing brace when there is an opening brace and the last
\* closing brace comes after it; otherwise the trimmed text.
C17_ExtractJsonCases ==
  calc.fn = "extractJson" =>
    LET t == Trim(calc.input)
        opens == Positions(t, "{")
        closes == Positions(t, "}")
    IN calc.output =
         IF Cardinality(Positions(t, Fence)) >= 2
         THEN Trim(FirstCodeBlock(t))
         ELSE IF opens # {} /\ closes # {} /\ Greatest(closes) > Least(opens)
              THEN SubSeq(t, Least(opens), Greatest(closes))
              ELSE t

\* the body of a code block with a json tag was returned, although the
\* text has an opening brace before the block
C17_Witness ==
  /\ calc.fn = "extractJson"
  /\ calc.input = <<"{", Fence, "json", Fence>>
  /\ calc.output = <<>>
  /\ extractJson(<<" ", Fence, "json", " ", "{", "x", "}", " ", Fence, "x">>)
       = <<"{", "x", "}">>

-----------------------------------------------------------------------------
(* Insight derivation: helpers over stored analyses *)

MaxFlags == 3

\* A stored risk flag.
Flag(risk, severity) == [risk |-> risk, severity |-> severity, reason |-> <<>>]

\* A stored flag whose severity is missing (guarded by s?. in order).
FlagWithoutSeverity(risk) == [risk |-> risk, reason |-> <<>>]

\* order, the comparator key of sortRisksBySeverity
order(flag) ==
  LET x == IF "severity" \in DOMAIN flag
             THEN ToLowerCase(flag.severity)
             ELSE <<"low">>
  IN IF x = <<"high">> THEN 0
     ELSE IF x = <<"medium">> \/ x = <<"moderate">> THEN 1
     ELSE 2

\* One step of Array.prototype.sort, which is stable: x goes after every
\* element whose key is not greater than its own.
InsertStable(sorted, x) ==
  LET p == Cardinality({i \in DOMAIN sorted : order(sorted[i]) <= order(x)})
  IN SubSeq(sorted, 1, p) \o <<x>> \o SubSeq(sorted, p + 1, Len(sorted))

RECURSIVE SortByOrder(_)
SortByOrder(s) ==
  IF s = <<>> THEN <<>>
  ELSE InsertStable(SortByOrder(SubSeq(s, 1, Len(s) - 1)), s[Len(s)])

\* risks.sort(...) without the copy: the argument itself is reordered.
sortRisksInPlace(risks) ==
  [risks |-> SortByOrder(risks), returned |-> SortByOrder(risks)]

\* sortRisksBySeverity: the argument after the call, and the returned list
sortRisksBySeverity(risks) ==
  [risks |-> risks, returned |-> SortByOrder(risks)]

SortNames == {<<"Fall risk">>, <<"Dehydration">>}
SortSeverities ==
  {<<"high">>, <<"High">>, <<"medium">>, <<"moderate">>, <<"low">>,
   <<"critical">>}
SortFlags ==
  {Flag(n, s) : n \in SortNames, s \in SortSeverities}
    \cup {FlagWithoutSeverity(<<"Fall risk">>)}

SeqsUpTo(S, n) == UNION {[1..k -> S] : k \in 0..n}

\* Pairs of lists over S holding at most n elements together.
ListPairsUpTo(S, n) ==
  UNION {[1..a -> S] \X [1..b -> S] : <<a, b>> \in {q \in (0..n) \X (0..n) : q[1] + q[2] <= n}}

ApplySortRisksBySeverity ==
  /\ calc = CalcIdle
  /\ \E risks \in SeqsUpTo(SortFlags, MaxFlags) :
       calc' = Applied("sortRisksBySeverity", risks, sortRisksBySeverity(risks))
  /\ UNCHANGED <<apiKeyConfigured, clientInstance, pipeVars, storeVars, http, session>>

MaxFindings == 2

\* s.replace(/\.+$/, ""): the trailing run of periods is removed
RECURSIVE StripTrailingPeriods(_)
StripTrailingPeriods(t) ==
  IF t # <<>> /\ t[Len(t)] = "."
  THEN StripTrailingPeriods(SubSeq(t, 1, Len(t) - 1))
  ELSE t

normalizeForCompare(s) == StripTrailingPeriods(Trim(ToLowerCase(s)))

\* list.map(normalizeForCompare)
MapNormalize(list) == [i \in DOMAIN list |-> normalizeForCompare(list[i])]

\* new Set([...a, ...b])
SetOf(a, b) == {a[i] : i \in DOMAIN a} \cup {b[i] : i \in DOMAIN b}

\* for (const c of list) { if (!set.has(c)) result.push(c); }
RECURSIVE PushAbsent(_, _)
PushAbsent(list, set) ==
  IF list = <<>> THEN <<>>
  ELSE (IF Head(list) \in set THEN <<>> ELSE <<Head(list)>>)
         \o PushAbsent(Tail(list), set)

\* null, for the previous analysis of a first visit
NoPrevious == [absent |-> TRUE]

latestConcerns(latest) == MapNormalize(latest.structuredData.concerns)
latestObs(latest) == MapNormalize(latest.structuredData.key_observations)

\* the loops filling result.new_findings
newFindings(latest, previous) ==
  LET prevSet == SetOf(latestConcerns(previous), latestObs(previous))
  IN PushAbsent(latestConcerns(latest), prevSet)
       \o PushAbsent(latestObs(latest), prevSet)

\* improvements measured against the latest concerns only
improvementsAgainstConcerns(latest, previous) ==
  LET latestSet == SetOf(latestConcerns(latest), <<>>)
  IN PushAbsent(latestConcerns(previous), latestSet)
       \o PushAbsent(latestObs(previous), latestSet)

\* the loops filling result.improvements
improvements(latest, previous) ==
  LET latestSet == SetOf(latestConcerns(latest), latestObs(latest))
  IN PushAbsent(latestConcerns(previous), latestSet)
       \o PushAbsent(latestObs(previous), latestSet)

\* obj["__proto__"] = v with a string v: the inherited setter ignores a value
\* that is no object, so the assignment creates no own key
CreatesOwnKey(name) == name # <<"__proto__">>

\* prevRiskSeverity after the forEach: the own keys of the object, a later
\* flag of the same lower-cased name overwriting an earlier one
RECURSIVE prevRiskSeverity(_)
prevRiskSeverity(prevRisks) ==
  IF prevRisks = <<>> THEN <<>>
  ELSE LET r == prevRisks[Len(prevRisks)]
           earlier == prevRiskSeverity(SubSeq(prevRisks, 1, Len(prevRisks) - 1))
       IN IF CreatesOwnKey(ToLowerCase(r.risk))
          THEN (ToLowerCase(r.risk) :> ToLowerCase(r.severity)) @@ earlier
          ELSE earlier

\* Lower-case names every object literal inherits from Object.prototype.
ObjectPrototypeKeys == {<<"constructor">>, <<"__proto__">>}

\* prevRiskSeverity[name]: an own key, else an inherited member (the
\* constructor function, or Object.prototype itself for "__proto__"), else
\* undefined
LookupSeverity(table, name) ==
  IF name \in DOMAIN table THEN JStr(table[name])
  ELSE IF name = <<"__proto__">> THEN JObj(<<>>)
  ELSE IF name \in ObjectPrototypeKeys THEN [type |-> "function"]
  ELSE JUndefined

NewlyIdentified(risk) == risk \o <<" newly identified">>
SeverityIncreased(risk) == risk \o <<" severity increased">>

\* the loop body reporting an increase only when the severity went to high
SignalsOfHighOnly(r, table) ==
  LET name == ToLowerCase(r.risk)
      sev == ToLowerCase(r.severity)
      prevSev == LookupSeverity(table, name)
  IN IF Falsy(prevSev) THEN <<NewlyIdentified(r.risk)>>
     ELSE IF sev = <<"high">> /\ prevSev # JStr(<<"high">>)
          THEN <<SeverityIncreased(r.risk)>>
          ELSE <<>>

\* what the loop over latestRisks pushes for one flag
SignalsOf(r, table) ==
  LET name == ToLowerCase(r.risk)
      sev == ToLowerCase(r.severity)
      prevSev == LookupSeverity(table, name)
  IN IF Falsy(prevSev) THEN <<NewlyIdentified(r.risk)>>
     ELSE IF \/ sev = <<"high">> /\ prevSev # JStr(<<"high">>)
             \/ sev = <<"medium">> /\ prevSev = JStr(<<"low">>)
          THEN <<SeverityIncreased(r.risk)>>
          ELSE <<>>

RECURSIVE SignalsOfAll(_, _)
SignalsOfAll(latestRisks, table) ==
  IF latestRisks = <<>> THEN <<>>
  ELSE SignalsOf(Head(latestRisks), table) \o SignalsOfAll(Tail(latestRisks), table)

\* the loop filling result.worsening_signals
worseningSignals(latest, previous) ==
  SignalsOfAll(latest.risks.risk_flags, prevRiskSeverity(previous.risks.risk_flags))

computeTrendAnalysis(latest, previous) ==
  IF previous = NoPrevious
  THEN [new_findings |-> <<>>, worsening_signals |-> <<>>, improvements |-> <<>>]
  ELSE [new_findings |-> newFindings(latest, previous),
        worsening_signals |-> worseningSignals(latest, previous),
        improvements |-> improvements(latest, previous)]

\* A stored analysis with the given concerns, observations and risk flags.
VisitAnalysis(concerns, observations, flags) ==
  Analysis([cleanedTranscript |-> <<"x">>,
            structuredData |-> [createEmptyStructuredData EXCEPT
                                  !.concerns = concerns,
                                  !.key_observations = observations],
            risks |-> [risk_flags |-> flags]], 0)

FindingTexts == {<<"Dizzy">>, <<" ", "dizzy", ".">>, <<"Alert">>}

\* Analyses without risk flags, holding at most MaxFindings findings.
FindingAnalyses ==
  {VisitAnalysis(p[1], p[2], <<>>) : p \in ListPairsUpTo(FindingTexts, MaxFindings)}

TrendNames == {<<"Fall risk">>, <<"fall risk">>, <<"Constructor">>, <<"__proto__">>}
TrendFlags == {Flag(n, s) : n \in TrendNames, s \in Severities}

\* Pairs of flag lists holding at most MaxFlags flags together.
FlagListPairs == ListPairsUpTo(TrendFlags, MaxFlags)

TrendInput(latest, previous) == [latest |-> latest, previous |-> previous]

ApplyTrendToFindings ==
  /\ calc = CalcIdle
  /\ \E latest \in FindingAnalyses, previous \in FindingAnalyses \cup {NoPrevious} :
       calc' = Applied("computeTrendAnalysis", TrendInput(latest, previous),
                       computeTrendAnalysis(latest, previous))
  /\ UNCHANGED <<apiKeyConfigured, clientInstance, pipeVars, storeVars, http, session>>

ApplyTrendToRisks ==
  /\ calc = CalcIdle
  /\ \E p \in FlagListPairs :
       LET latest == VisitAnalysis(<<>>, <<>>, p[1])
           previous == VisitAnalysis(<<>>, <<>>, p[2])
       IN calc' = Applied("computeTrendAnalysis", TrendInput(latest, previous),
                          computeTrendAnalysis(latest, previous))
  /\ UNCHANGED <<apiKeyConfigured, clientInstance, pipeVars, storeVars, http, session>>

\* countNewRisksSincePrior
countNewRisksNormalized(latest, previous) ==
  IF previous = NoPrevious THEN 0
  ELSE LET prevRisks == previous.risks.risk_flags
           latestRisks == latest.risks.risk_flags
           prevNames == {normalizeForCompare(prevRisks[i].risk) : i \in DOMAIN prevRisks}
       IN Cardinality({i \in DOMAIN latestRisks :
                         normalizeForCompare(latestRisks[i].risk) \notin prevNames})

countNewRisksSincePrior(latest, previous) ==
  IF previous = NoPrevious THEN 0
  ELSE LET prevRisks == previous.risks.risk_flags
           latestRisks == latest.risks.risk_flags
           prevNames == {ToLowerCase(prevRisks[i].risk) : i \in DOMAIN prevRisks}
       IN Cardinality({i \in DOMAIN latestRisks :
                         ToLowerCase(latestRisks[i].risk) \notin prevNames})

MaxSpelledFlags == 2

\* One risk name in several spellings.
SpelledNames ==
  {<<"Fall risk">>, <<"fall risk">>, <<" ", "Fall risk">>, <<"Fall risk", ".">>}
SpelledFlags == {Flag(n, s) : n \in SpelledNames, s \in {<<"low">>, <<"high">>}}
SpelledAnalysisPairs ==
  {TrendInput(VisitAnalysis(<<>>, <<>>, p[1]), VisitAnalysis(<<>>, <<>>, p[2])) :
     p \in ListPairsUpTo(SpelledFlags, MaxSpelledFlags)}

ApplyCountNewRisksSincePrior ==
  /\ calc = CalcIdle
  /\ \E in \in SpelledAnalysisPairs \cup
                 {TrendInput(VisitAnalysis(<<>>, <<>>, <<f>>), NoPrevious) : f \in SpelledFlags} :
       calc' = Applied("countNewRisksSincePrior", in,
                       countNewRisksSincePrior(in.latest, in.previous))
  /\ UNCHANGED <<apiKeyConfigured, clientInstance, pipeVars, storeVars, http, session>>

ApplyTrendToSpelledRisks ==
  /\ calc = CalcIdle
  /\ \E in \in SpelledAnalysisPairs :
       calc' = Applied("computeTrendAnalysis", in,
                       computeTrendAnalysis(in.latest, in.previous))
  /\ UNCHANGED <<apiKeyConfigured, clientInstance, pipeVars, storeVars, http, session>>

\* String.prototype.length of a text: the characters of its chunks
RECURSIVE StrLen(_)
StrLen(t) == IF t = <<>> THEN 0 ELSE Len(Head(t)) + StrLen(Tail(t))

\* populatedFields of computeAIConfidence
populatedFields(structuredData) ==
  Cardinality({f \in {"visit_summary", "key_observations", "activities_completed",
                      "concerns", "suggested_followups", "medication_notes"} :
                 structuredData[f] # <<>>})

\* computeAIConfidence without the deduction for a very short transcript
computeAIConfidenceWithoutShortPenalty(analysis) ==
  LET transcriptLen == StrLen(analysis.cleanedTranscript)
      riskCount == Len(analysis.risks.risk_flags)
      populated == populatedFields(analysis.structuredData)
      score == (IF transcriptLen > 150 THEN 1 ELSE 0)
                 + (IF populated > 4 THEN 1 ELSE 0)
                 + (IF riskCount >= 2 THEN 1 ELSE 0)
                 - (IF /\ analysis.structuredData.concerns = <<>>
                       /\ analysis.structuredData.key_observations = <<>>
                    THEN 1 ELSE 0)
      level == IF score <= 1 THEN "Low" ELSE IF score = 2 THEN "Medium" ELSE "High"
  IN [level |-> level, reasoning |-> "Limited transcript detail reduces certainty."]

computeAIConfidence(analysis) ==
  LET transcriptLen == StrLen(analysis.cleanedTranscript)
      riskCount == Len(analysis.risks.risk_flags)
      populated == populatedFields(analysis.structuredData)
      score == (IF transcriptLen > 150 THEN 1 ELSE 0)
                 + (IF populated > 4 THEN 1 ELSE 0)
                 + (IF riskCount >= 2 THEN 1 ELSE 0)
                 - (IF transcriptLen < 50 THEN 1 ELSE 0)
                 - (IF /\ analysis.structuredData.concerns = <<>>
                       /\ analysis.structuredData.key_observations = <<>>
                    THEN 1 ELSE 0)
      level == IF score <= 1 THEN "Low" ELSE IF score = 2 THEN "Medium" ELSE "High"
      reasoning ==
        IF level = "High"
        THEN IF riskCount >= 2 /\ populated > 4
             THEN "Based on multiple corroborating symptoms and consistent transcript detail."
             ELSE "Based on sufficient transcript detail and structured clinical data."
        ELSE IF level = "Medium"
             THEN IF transcriptLen < 100
                  THEN "Limited transcript detail reduces certainty."
                  ELSE "Moderate data completeness; some nuance may be missed."
             ELSE IF transcriptLen < 50
                  THEN "Very short transcript limits reliability."
                  ELSE "Limited structured data extracted; consider adding more detail."
  IN [level |-> level, reasoning |-> reasoning]

Filler49 == "xxxxxxxxxxxxxxxxxxxxxxxxxxxxxxxxxxxxxxxxxxxxxxxxx"

\* Cleaned transcripts of 1, 49, 50, 99, 100, 150 and 151 characters.
SizedTranscripts ==
  {<<"x">>, <<Filler49>>, <<Filler49, "x">>,
   <<Filler49, Filler49, "x">>, <<Filler49, Filler49, "x", "x">>,
   <<Filler49, Filler49, Filler49, "x", "x", "x">>,
   <<Filler49, Filler49, Filler49, "x", "x", "x", "x">>}

ListFieldNames ==
  {"key_observations", "activities_completed", "concerns", "suggested_followups",
   "medication_notes"}

\* Structured data whose summary and list fields are each empty or populated.
PopulatedStructuredData ==
  {[f \in DOMAIN createEmptyStructuredData |->
      IF f = "visit_summary" THEN (IF summary THEN <<"Alert">> ELSE <<>>)
      ELSE IF f \in lists THEN << <<"Dizzy">> >>
      ELSE createEmptyStructuredData[f]] :
     summary \in BOOLEAN, lists \in SUBSET ListFieldNames}

ApplyComputeAIConfidence ==
  /\ calc = CalcIdle
  /\ \E t \in SizedTranscripts, sd \in PopulatedStructuredData, n \in 0..MaxFlags :
       LET analysis == Analysis([cleanedTranscript |-> t,
                                 structuredData |-> sd,
                                 risks |-> [risk_flags |->
                                              [i \in 1..n |-> Flag(<<"Fall risk">>, <<"low">>)]]],
                                0)
       IN calc' = Applied("computeAIConfidence", analysis, computeAIConfidence(analysis))
  /\ UNCHANGED <<apiKeyConfigured, clientInstance, pipeVars, storeVars, http, session>>

\* The chunks of the risk names the model uses, with the words each contains.
ChunkIncludes(c, word) ==
  \/ c = "fall risk" /\ word = "fall"
  \/ c = "medication error" /\ word \in {"medication", "med"}
  \/ c = "immediate attention" /\ word = "med"

\* String.prototype.includes for a word that lies within one chunk
Includes(t, word) == \E i \in DOMAIN t : ChunkIncludes(t[i], word)

\* r.severity?.toLowerCase() === word
SeverityIs(r, word) == "severity" \in DOMAIN r /\ ToLowerCase(r.severity) = <<word>>

NotifyClinician == "Consider notifying supervising nurse or clinician today."
Monitor24h == "Monitor closely over the next 24 hours."
FallPrevention ==
  "Fall prevention measures may be warranted: clear pathways, adequate lighting, mobility assistance."
MedicationReview == "Medication adherence and side effects may warrant review."
RoutineMonitoring == "Continue routine monitoring."

highRisks(risks) == {i \in DOMAIN risks : SeverityIs(risks[i], "high")}
mediumRisks(risks) ==
  {i \in DOMAIN risks : SeverityIs(risks[i], "medium") \/ SeverityIs(risks[i], "moderate")}
hasFallRisk(risks) == \E i \in DOMAIN risks : Includes(ToLowerCase(risks[i].risk), "fall")
hasMedRisk(risks) ==
  \E i \in DOMAIN risks :
    \/ Includes(ToLowerCase(risks[i].risk), "medication")
    \/ Includes(ToLowerCase(risks[i].risk), "med")

\* generateEscalation asking to monitor from the first medium flag on
generateEscalationOnAnyMedium(risks) ==
  LET specific ==
        (IF highRisks(risks) # {} THEN <<NotifyClinician>> ELSE <<>>)
          \o (IF Cardinality(mediumRisks(risks)) >= 1 THEN <<Monitor24h>> ELSE <<>>)
          \o (IF hasFallRisk(risks) THEN <<FallPrevention>> ELSE <<>>)
          \o (IF hasMedRisk(risks) THEN <<MedicationReview>> ELSE <<>>)
  IN IF specific = <<>> /\ Len(risks) > 0 THEN <<RoutineMonitoring>> ELSE specific

generateEscalation(risks) ==
  LET specific ==
        (IF highRisks(risks) # {} THEN <<NotifyClinician>> ELSE <<>>)
          \o (IF Cardinality(mediumRisks(risks)) >= 2 THEN <<Monitor24h>> ELSE <<>>)
          \o (IF hasFallRisk(risks) THEN <<FallPrevention>> ELSE <<>>)
          \o (IF hasMedRisk(risks) THEN <<MedicationReview>> ELSE <<>>)
  IN IF specific = <<>> /\ Len(risks) > 0 THEN <<RoutineMonitoring>> ELSE specific

EscalationNames ==
  {<<"Fall risk">>, <<"Medication error">>, <<"Immediate attention">>, <<"Dehydration">>}
EscalationFlags ==
  {Flag(n, s) : n \in EscalationNames,
                s \in {<<"High">>, <<"medium">>, <<"moderate">>, <<"low">>}}

ApplyGenerateEscalation ==
  /\ calc = CalcIdle
  /\ \E risks \in SeqsUpTo(EscalationFlags, MaxFlags) :
       calc' = Applied("generateEscalation", risks, generateEscalation(risks))
  /\ UNCHANGED <<apiKeyConfigured, clientInstance, pipeVars, storeVars, http, session>>

\* normalizeRiskTitleForEMR
normalizeRiskTitleForEMR(risk) ==
  LET r == ToLowerCase(risk)
  IN IF Includes(r, "medication") THEN <<"Medication concern">>
     ELSE IF Includes(r, "fatigue") \/ Includes(r, "deterioration")
          THEN <<"Possible deterioration">>
     ELSE IF Includes(r, "fall") THEN <<"Fall risk">>
     ELSE IF Includes(r, "mobility") THEN <<"Mobility concern">>
     ELSE risk

\* capitalizeSeverity, of a flag's severity
capitalizeSeverity(flag) ==
  IF SeverityIs(flag, "medium") \/ SeverityIs(flag, "moderate") THEN "Moderate"
  ELSE IF SeverityIs(flag, "high") THEN "High"
  ELSE "Low"

\* The three word replacements, on a chunk that is one word.
SoftenWord(c) ==
  CASE c \in {"indicates", "indicate", "Indicates"} -> "may suggest"
    [] c \in {"confirms", "confirm", "Confirms"} -> "consistent with"
    [] c \in {"detected", "detect", "Detected"} -> "observed"
    [] OTHER -> c

\* replace(/\s{2,}/g, " "): a run of two or more blanks becomes one space
RECURSIVE CollapseBlanks(_)
CollapseBlanks(t) ==
  IF t = <<>> THEN <<>>
  ELSE IF Len(t) >= 2 /\ t[1] \in WS /\ t[2] \in WS
       THEN <<" ">> \o CollapseBlanks(TrimStart(t))
       ELSE <<Head(t)>> \o CollapseBlanks(Tail(t))

softenReason(r) == Trim(CollapseBlanks([i \in DOMAIN r |-> SoftenWord(r[i])]))

NoAcuteConcerns == "No acute concerns noted during visit."

UpperLetters == "ABCDEFGHIJKLMNOPQRSTUVWXYZ"
LowerLetters == "abcdefghijklmnopqrstuvwxyz"
Digits == "0123456789"

CharAt(str, i) == SubSeq(str, i, i)
HasChar(str, ch) == \E i \in 1..Len(str) : CharAt(str, i) = ch

\* one character, lower-cased
LowerChar(ch) ==
  IF HasChar(UpperLetters, ch)
  THEN CharAt(LowerLetters, CHOOSE i \in 1..Len(UpperLetters) : CharAt(UpperLetters, i) = ch)
  ELSE ch

\* the chunk c matches the literal word under the i flag
MatchesIgnoringCase(c, word) ==
  /\ Len(c) = Len(word)
  /\ \A i \in 1..Len(c) : LowerChar(CharAt(c, i)) = CharAt(word, i)

\* \w
IsWordChar(ch) ==
  HasChar(UpperLetters, ch) \/ HasChar(LowerLetters, ch) \/ HasChar(Digits, ch) \/ ch = "_"

\* every character of the chunk is matched by [\w\s]
IsWordOrSpace(c) == c \in WS \/ \A i \in 1..Len(c) : IsWordChar(CharAt(c, i))

\* (mr\.|mrs\.|ms\.)
IsTitle(c) == \E w \in {"mr.", "mrs.", "ms."} : MatchesIgnoringCase(c, w)
\* (exhibited|was|demonstrated|showed)
IsReportingVerb(c) ==
  \E w \in {"exhibited", "was", "demonstrated", "showed"} : MatchesIgnoringCase(c, w)

\* The positions j at which group 2 of
\* /^(mr\.|mrs\.|ms\.)\s+[\w\s]+\s+(exhibited|was|demonstrated|showed)\s+/i
\* can match in s: the title opens s, everything between the title and the
\* verb is word characters and blanks with a blank at either end and at least
\* one character between them, and a blank follows the verb.
VerbPositions(s) ==
  {j \in 5..(Len(s) - 1) :
     /\ IsTitle(s[1])
     /\ s[2] \in WS
     /\ \A k \in 2..(j - 1) : IsWordOrSpace(s[k])
     /\ s[j - 1] \in WS
     /\ IsReportingVerb(s[j])
     /\ s[j + 1] \in WS}

\* .replace(/^(mr\.|...)\s+[\w\s]+\s+(exhibited|...)\s+/i, "Patient $2 "):
\* [\w\s]+ is greedy, so the verb is the last one that can match, and the
\* blanks after it are consumed
replaceTitleAndName(s) ==
  IF VerbPositions(s) = {} THEN s
  ELSE LET j == CHOOSE m \in VerbPositions(s) : \A n \in VerbPositions(s) : n <= m
       IN <<"Patient", " ", s[j], " ">> \o TrimStart(SubSeq(s, j + 1, Len(s)))

toClinicalAssessment(summary) ==
  IF Trim(summary) = <<>> THEN <<NoAcuteConcerns>>
  ELSE softenReason(replaceTitleAndName(Trim(summary)))

\* lines.join("\n")
RECURSIVE JoinLines(_)
JoinLines(lines) ==
  IF lines = <<>> THEN <<>>
  ELSE IF Len(lines) = 1 THEN lines[1]
  ELSE lines[1] \o <<"\n">> \o JoinLines(Tail(lines))

PatientLine(patientName, patientAge) ==
  <<"Patient: ">> \o patientName \o <<", Age ", ToString(patientAge)>>
DateLine(dateStr) == <<"Date: ">> \o dateStr

\* one entry of riskLines in buildEMRExportText
EMRRiskLine(f) ==
  <<"- ">> \o normalizeRiskTitleForEMR(f.risk)
    \o <<" (", capitalizeSeverity(f), "): ">> \o softenReason(f.reason)

\* one entry of planLines
PlanLine(a) == <<"- ">> \o a

NoneIdentified == "None identified."

buildEMRExportText(patientName, patientAge, dateStr, visitSummary, riskFlags, suggestedActions) ==
  LET riskLines == [i \in DOMAIN riskFlags |-> EMRRiskLine(riskFlags[i])]
      planLines == [i \in DOMAIN suggestedActions |-> PlanLine(suggestedActions[i])]
  IN JoinLines(<<PatientLine(patientName, patientAge), DateLine(dateStr), <<>>,
                 <<"Assessment">>, toClinicalAssessment(visitSummary), <<>>,
                 <<"Clinical Risks">>,
                 IF Len(riskLines) > 0 THEN JoinLines(riskLines) ELSE <<NoneIdentified>>,
                 <<>>,
                 <<"Plan">>,
                 IF Len(planLines) > 0 THEN JoinLines(planLines)
                 ELSE <<RoutineMonitoring>> >>)

MaxExportItems == 2

FlagFor(risk, severity, reason) == [risk |-> risk, severity |-> severity, reason |-> reason]

ExportFlags ==
  {FlagFor(<<"Fall risk">>, <<"High">>, <<"Gait", " ", " ", "indicates", " ", "risk">>),
   FlagFor(<<"Dehydration">>, <<"moderate">>, <<"Detected", " ", "clearly", " ", "low", " ", "intake">>),
   FlagFor(<<"Dehydration">>, <<"low">>, <<"Dizzy", ".", "\n", "Monitor">>)}
ExportActions == {<<NotifyClinician>>, <<" ", Monitor24h>>}
ExportSummaries ==
  {<<>>, <<" ">>, <<"Exam", " ", "confirms", " ", "fatigue", ".">>,
   <<"Mr.", " ", "Smith", " ", "exhibited", " ", "fatigue", ".">>,
   <<"MRS.", " ", "Ann", " ", "Lee", " ", "was", " ", "seen", " ", "and", " ",
     "Showed", " ", " ", "pain", ".">>}

ExportInputs ==
  [patientName : {<<"Ann">>}, patientAge : Ages, dateStr : {<<"Jan 5, 2026">>},
   summary : ExportSummaries,
   riskFlags : SeqsUpTo(ExportFlags, MaxExportItems),
   suggestedActions : SeqsUpTo(ExportActions, MaxExportItems)]

ApplyBuildEMRExportText ==
  /\ calc = CalcIdle
  /\ \E in \in ExportInputs :
       calc' = Applied("buildEMRExportText", in,
                       buildEMRExportText(in.patientName, in.patientAge, in.dateStr,
                                          in.summary, in.riskFlags, in.suggestedActions))
  /\ UNCHANGED <<apiKeyConfigured, clientInstance, pipeVars, storeVars, http, session>>

\* softenExportReason: the word replacements of softenReason, and the
\* emphasis words removed
softenExportReason(r) ==
  LET kept == SelectSeq(r, LAMBDA c : c \notin {"clearly", "definitely", "certainly",
                                                  "Clearly", "Definitely", "Certainly"})
  IN Trim(CollapseBlanks([i \in DOMAIN kept |-> SoftenWord(kept[i])]))

\* softenExportAction
softenExportAction(a) == Trim(a)

\* one entry of riskLines in buildExportText
ExportRiskLine(f) ==
  <<"- ">> \o f.risk \o <<" (", capitalizeSeverity(f), "): ">> \o softenExportReason(f.reason)

\* buildExportText of the insights page
buildExportText(patientName, patientAge, dateStr, aiSummary, riskFlags, suggestedActions) ==
  JoinLines(<<PatientLine(patientName, patientAge), DateLine(dateStr), <<>>,
              <<"Summary">>, aiSummary, <<>>,
              <<"Clinical Risk Signals">> >>
              \o [i \in DOMAIN riskFlags |-> ExportRiskLine(riskFlags[i])]
              \o << <<>>, <<"Suggested Actions">> >>
              \o [i \in DOMAIN suggestedActions |->
                    <<"- ">> \o softenExportAction(suggestedActions[i])])

ApplyBuildExportText ==
  /\ calc = CalcIdle
  /\ \E in \in ExportInputs :
       calc' = Applied("buildExportText", in,
                       buildExportText(in.patientName, in.patientAge, in.dateStr,
                                       in.summary, in.riskFlags, in.suggestedActions))
  /\ UNCHANGED <<apiKeyConfigured, clientInstance, pipeVars, storeVars, http, session>>

\* s.replace(" newly identified", ""): the first occurrence is removed
RemoveNewlyIdentified(s) ==
  IF \E i \in DOMAIN s : s[i] = " newly identified"
  THEN LET k == CHOOSE i \in DOMAIN s :
                  s[i] = " newly identified" /\ \A j \in 1..(i - 1) : s[j] # " newly identified"
       IN SubSeq(s, 1, k - 1) \o SubSeq(s, k + 1, Len(s))
  ELSE s

\* parts.join(separator)
RECURSIVE JoinWith(_, _)
JoinWith(parts, separator) ==
  IF parts = <<>> THEN <<>>
  ELSE IF Len(parts) = 1 THEN parts[1]
  ELSE parts[1] \o <<separator>> \o JoinWith(Tail(parts), separator)

\* list.slice(0, 2)
FirstTwo(list) == SubSeq(list, 1, IF Len(list) < 2 THEN Len(list) ELSE 2)

\* the flags whose lower-cased severity is high, in order
HighFlagsOf(riskFlags) == SelectSeq(riskFlags, LAMBDA r : SeverityIs(r, "high"))

LowerNames(flags) == [i \in DOMAIN flags |-> ToLowerCase(flags[i].risk)]

hasChange(trend) == Len(trend.worsening_signals) > 0 \/ Len(trend.new_findings) > 0

NotableChange == "Notable change observed since last visit."
ConditionStable == "Condition appears stable compared to prior visit."
MultipleRiskSignals == "Multiple risk signals identified."
SeveralAreas == "Several areas warrant attention."
RiskSignalNoted == "Risk signal noted."
VisitDocumented == "Visit documented. No significant concerns noted."

getInsightBannerMessage(latest, previous) ==
  LET riskFlags == latest.risks.risk_flags
      highCount == Len(HighFlagsOf(riskFlags))
      multiRisk == Len(riskFlags) >= 2
      trend == computeTrendAnalysis(latest, previous)
  IN IF previous # NoPrevious /\ hasChange(trend) THEN <<NotableChange>>
     ELSE IF previous # NoPrevious /\ Len(trend.improvements) > 0 /\ Len(riskFlags) = 0
          THEN <<ConditionStable>>
     ELSE IF multiRisk /\ highCount > 0 THEN <<MultipleRiskSignals>>
     ELSE IF multiRisk THEN <<SeveralAreas>>
     ELSE IF highCount > 0 THEN <<RiskSignalNoted>>
     ELSE IF previous # NoPrevious THEN <<ConditionStable>>
     ELSE <<VisitDocumented>>

NoSignificantConcerns == "Patient stable overall with no significant concerns."

deriveAISnapshotText(latest, previous) ==
  LET trend == computeTrendAnalysis(latest, previous)
      summary == latest.structuredData.visit_summary
      riskFlags == latest.risks.risk_flags
      worsening == trend.worsening_signals
      found == trend.new_findings
  IN IF previous # NoPrevious /\ hasChange(trend)
     THEN LET parts ==
                (IF Len(worsening) > 0
                 THEN <<RemoveNewlyIdentified(worsening[1]) \o <<" compared to prior visit.">> >>
                 ELSE <<>>)
                  \o (IF Len(found) > 0
                      THEN << <<"New: ">> \o found[1]
                                \o (IF Len(found) > 1 THEN <<". ">> \o found[2] ELSE <<>>)
                                \o <<".">> >>
                      ELSE <<>>)
              joined == JoinWith(parts, " ")
          IN IF joined # <<>> THEN joined
             ELSE IF summary # <<>> THEN summary
             ELSE <<"Notable changes observed.">>
     ELSE IF Len(riskFlags) > 0
          THEN LET topics == LowerNames(FirstTwo(riskFlags))
               IN IF Len(topics) = 1
                  THEN <<"Patient stable overall with ">> \o topics[1] \o <<" noted.">>
                  ELSE <<"Patient stable overall with mild concerns: ">>
                         \o JoinWith(topics, ", ") \o <<".">>
     ELSE IF summary # <<>> THEN summary
     ELSE <<NoSignificantConcerns>>

NoAcuteConcernsTakeaway == "Visit documented. No acute concerns."

\* summary.split(".")[0].trim(), for a summary whose periods are chunks
FirstSentence(summary) ==
  LET k == IndexOf(summary, ".")
  IN Trim(IF k = -1 THEN summary ELSE SubSeq(summary, 1, k))

deriveKeyTakeaway(latest, previous) ==
  LET trend == computeTrendAnalysis(latest, previous)
      risks == latest.risks.risk_flags
      concerns == latest.structuredData.concerns
      high == HighFlagsOf(risks)
      worsening == trend.worsening_signals
      found == trend.new_findings
  IN IF previous # NoPrevious /\ hasChange(trend)
     THEN LET parts ==
                (IF Len(worsening) > 0 /\ worsening[1] # <<>>
                 THEN <<RemoveNewlyIdentified(worsening[1])>> ELSE <<>>)
                  \o (IF Len(found) > 0 /\ found[1] # <<>> THEN <<found[1]>> ELSE <<>>)
          IN JoinWith(parts, " and ") \o <<" suggest monitoring.">>
     ELSE IF Len(high) > 0
          THEN JoinWith(FirstTwo(LowerNames(high)), " and ") \o <<" may warrant attention.">>
     ELSE IF Len(concerns) > 0
          THEN <<"Monitor ">> \o StripTrailingPeriods(ToLowerCase(concerns[1])) \o <<".">>
     ELSE IF FirstSentence(latest.structuredData.visit_summary) # <<>>
          THEN FirstSentence(latest.structuredData.visit_summary) \o <<".">>
     ELSE <<NoAcuteConcernsTakeaway>>

MaxDeriveFlags == 2

DeriveFlags ==
  {Flag(<<"Fall risk">>, <<"high">>), Flag(<<"Fall risk">>, <<"low">>),
   Flag(<<"Dehydration">>, <<"medium">>)}

\* Analyses for the dashboard helpers.
DeriveAnalyses ==
  {Analysis([cleanedTranscript |-> <<"x">>,
             structuredData |-> [createEmptyStructuredData EXCEPT
                                   !.visit_summary = summary, !.concerns = concerns],
             risks |-> [risk_flags |-> flags]], 0) :
     summary \in {<<>>, <<"Stable visit", ".", " ", "Alert", ".">>},
     concerns \in {<<>>, << <<"Dizzy", ".">> >>, << <<".">> >>},
     flags \in SeqsUpTo(DeriveFlags, MaxDeriveFlags)}

DeriveInputs ==
  {TrendInput(latest, previous) :
     latest \in DeriveAnalyses, previous \in DeriveAnalyses \cup {NoPrevious}}

ApplyGetInsightBannerMessage ==
  /\ calc = CalcIdle
  /\ \E in \in DeriveInputs :
       calc' = Applied("getInsightBannerMessage", in,
                       getInsightBannerMessage(in.latest, in.previous))
  /\ UNCHANGED <<apiKeyConfigured, clientInstance, pipeVars, storeVars, http, session>>

ApplyDeriveAISnapshotText ==
  /\ calc = CalcIdle
  /\ \E in \in DeriveInputs :
       calc' = Applied("deriveAISnapshotText", in,
                       deriveAISnapshotText(in.latest, in.previous))
  /\ UNCHANGED <<apiKeyConfigured, clientInstance, pipeVars, storeVars, http, session>>

ApplyDeriveKeyTakeaway ==
  /\ calc = CalcIdle
  /\ \E in \in DeriveInputs :
       calc' = Applied("deriveKeyTakeaway", in, deriveKeyTakeaway(in.latest, in.previous))
  /\ UNCHANGED <<apiKeyConfigured, clientInstance, pipeVars, storeVars, http, session>>

NextInsights ==
  \/ ApplySortRisksBySeverity
  \/ ApplyTrendToFindings
  \/ ApplyTrendToRisks
  \/ ApplyCountNewRisksSincePrior
  \/ ApplyTrendToSpelledRisks
  \/ ApplyComputeAIConfidence
  \/ ApplyGenerateEscalation
  \/ ApplyBuildEMRExportText
  \/ ApplyBuildExportText
  \/ ApplyGetInsightBannerMessage
  \/ ApplyDeriveAISnapshotText
  \/ ApplyDeriveKeyTakeaway

SpecInsights == Init /\ [][NextInsights]_vars

-----------------------------------------------------------------------------
(* Claims about the insight helpers, checked under SpecInsights *)

IndexPermutations(n) ==
  {p \in [1..n -> 1..n] : \A i, j \in 1..n : p[i] = p[j] => i = j}

\* C18: sortRisksBySeverity leaves its argument as it was and returns a
\* permutation of it in which the severity ranks never decrease (high, then
\* medium or moderate, then every other flag) and flags of equal rank keep
\* their input order.
C18_SortIsStablePermutation ==
  calc.fn = "sortRisksBySeverity" =>
    LET in == calc.input
        out == calc.output.returned
    IN /\ calc.output.risks = in
       /\ Len(out) = Len(in)
       /\ \E p \in IndexPermutations(Len(in)) :
            /\ \A i \in 1..Len(in) : out[i] = in[p[i]]
            /\ \A i, j \in 1..Len(in) :
                 i < j => \/ order(out[i]) < order(out[j])
                          \/ order(out[i]) = order(out[j]) /\ p[i] < p[j]

C18_Witness ==
  /\ calc.fn = "sortRisksBySeverity"
  /\ calc.input = <<Flag(<<"Fall risk">>, <<"low">>),
                    Flag(<<"Fall risk">>, <<"moderate">>),
                    Flag(<<"Dehydration">>, <<"High">>)>>
  /\ calc.output.returned = <<Flag(<<"Dehydration">>, <<"High">>),
                              Flag(<<"Fall risk">>, <<"moderate">>),
                              Flag(<<"Fall risk">>, <<"low">>)>>
  /\ calc.output.risks = calc.input
  /\ sortRisksBySeverity(<<Flag(<<"Fall risk">>, <<"medium">>),
                            FlagWithoutSeverity(<<"Fall risk">>),
                            Flag(<<"Dehydration">>, <<"moderate">>)>>).returned
       = <<Flag(<<"Fall risk">>, <<"medium">>),
           Flag(<<"Dehydration">>, <<"moderate">>),
           FlagWithoutSeverity(<<"Fall risk">>)>>

\* C19: for any two analyses A and B, the improvements of
\* computeTrendAnalysis(A, B) are the new findings of
\* computeTrendAnalysis(B, A): the same sequence, with the same order and
\* the same repetitions.
C19_ImprovementsMirrorNewFindings ==
  (calc.fn = "computeTrendAnalysis" /\ calc.input.previous # NoPrevious) =>
    calc.output.improvements
      = computeTrendAnalysis(calc.input.previous, calc.input.latest).new_findings

C19_Witness ==
  /\ calc.fn = "computeTrendAnalysis"
  /\ calc.input.latest = VisitAnalysis(<< <<"Alert">> >>, <<>>, <<>>)
  /\ calc.input.previous
       = VisitAnalysis(<< <<"Dizzy">> >>, << <<" ", "dizzy", ".">> >>, <<>>)
  /\ calc.output.improvements = << <<"dizzy">>, <<"dizzy">> >>
  /\ calc.output.new_findings = << <<"alert">> >>

SameName(r, q) == ToLowerCase(r.risk) = ToLowerCase(q.risk)

\* The previous flag a latest flag is compared with: the last one of its
\* lower-cased name.
Counterpart(r, prevRisks) ==
  prevRisks[CHOOSE i \in DOMAIN prevRisks :
              /\ SameName(r, prevRisks[i])
              /\ \A j \in DOMAIN prevRisks : SameName(r, prevRisks[j]) => j <= i]

SeverityWentUp(r, q) ==
  \/ ToLowerCase(r.severity) = <<"high">> /\ ToLowerCase(q.severity) # <<"high">>
  \/ ToLowerCase(r.severity) = <<"medium">> /\ ToLowerCase(q.severity) = <<"low">>

\* What the claim has one latest flag contribute to worsening_signals.
StatedSignals(r, prevRisks) ==
  IF \A i \in DOMAIN prevRisks : ~SameName(r, prevRisks[i])
  THEN <<NewlyIdentified(r.risk)>>
  ELSE IF SeverityWentUp(r, Counterpart(r, prevRisks))
       THEN <<SeverityIncreased(r.risk)>>
       ELSE <<>>

RECURSIVE StatedSignalsOfAll(_, _)
StatedSignalsOfAll(latestRisks, prevRisks) ==
  IF latestRisks = <<>> THEN <<>>
  ELSE StatedSignals(Head(latestRisks), prevRisks)
         \o StatedSignalsOfAll(Tail(latestRisks), prevRisks)

ComparesAnalyses == calc.fn = "computeTrendAnalysis" /\ calc.input.previous # NoPrevious

\* C20: worsening_signals holds, for every risk flag of latest in order,
\* "<risk> newly identified" exactly when no flag of previous has the same
\* lower-cased name, "<risk> severity increased" exactly when such a flag
\* exists and the severity went to high from a non-high severity or to medium
\* from low, and nothing otherwise.
C20_SignalPerLatestFlag ==
  ComparesAnalyses =>
    calc.output.worsening_signals
      = StatedSignalsOfAll(calc.input.latest.risks.risk_flags,
                           calc.input.previous.risks.risk_flags)

InheritedName(r) == ToLowerCase(r.risk) \in ObjectPrototypeKeys

\* C20, for the names that are no member of Object.prototype: when no latest
\* flag has such a name, worsening_signals is what the claim states.
C20_SignalPerOrdinaryFlag ==
  (/\ ComparesAnalyses
   /\ \A i \in DOMAIN calc.input.latest.risks.risk_flags :
        ~InheritedName(calc.input.latest.risks.risk_flags[i])) =>
    calc.output.worsening_signals
      = StatedSignalsOfAll(calc.input.latest.risks.risk_flags,
                           calc.input.previous.risks.risk_flags)

\* A low flag that became high yields exactly one "severity increased" entry.
C20_Witness ==
  /\ ComparesAnalyses
  /\ calc.input.previous.risks.risk_flags = <<Flag(<<"Fall risk">>, <<"low">>)>>
  /\ calc.input.latest.risks.risk_flags = <<Flag(<<"fall risk">>, <<"high">>)>>
  /\ calc.output.worsening_signals = <<SeverityIncreased(<<"fall risk">>)>>

\* A high flag named Constructor, with no previous flag at all, is reported
\* as increased instead of newly identified.
C20_InheritedNameReached ==
  /\ ComparesAnalyses
  /\ calc.input.previous.risks.risk_flags = <<>>
  /\ calc.input.latest.risks.risk_flags = <<Flag(<<"Constructor">>, <<"high">>)>>
  /\ calc.output.worsening_signals = <<SeverityIncreased(<<"Constructor">>)>>

LatestFlags == calc.input.latest.risks.risk_flags
PreviousFlags == calc.input.previous.risks.risk_flags

HasCounterpart(r, prevRisks) == \E i \in DOMAIN prevRisks : SameName(r, prevRisks[i])

\* the severity of r went from a (in previous) to b (in latest)
WentFromTo(r, prevRisks, a, b) ==
  /\ HasCounterpart(r, prevRisks)
  /\ ToLowerCase(Counterpart(r, prevRisks).severity) = <<a>>
  /\ ToLowerCase(r.severity) = <<b>>

Reported(signal) ==
  \E k \in DOMAIN calc.output.worsening_signals :
    calc.output.worsening_signals[k] = signal

\* a medium flag that was high before, and a newly identified flag of an
\* ordinary name, are reported
MediumToHighAndNewReported ==
  \A i \in DOMAIN LatestFlags :
    LET r == LatestFlags[i]
    IN /\ WentFromTo(r, PreviousFlags, "medium", "high")
            => Reported(SeverityIncreased(r.risk))
       /\ (~HasCounterpart(r, PreviousFlags) /\ ~InheritedName(r))
            => Reported(NewlyIdentified(r.risk))

\* C21 as stated: a flag that went from low to medium adds nothing to
\* worsening_signals, while a change from medium to high and a newly
\* identified risk are reported.
C21_LowToMediumNotReported ==
  ComparesAnalyses =>
    /\ MediumToHighAndNewReported
    /\ (Len(LatestFlags) = 1 /\ WentFromTo(LatestFlags[1], PreviousFlags, "low", "medium"))
         => calc.output.worsening_signals = <<>>

\* the lookup of the name of r finds Object.prototype itself, whatever the
\* flags of previous are
ProtoName(r) == ToLowerCase(r.risk) = <<"__proto__">>

\* C21, amended: a flag that went from low to medium is reported as
\* "<risk> severity increased", like a flag that went from medium to high; a
\* flag with no previous flag of its lower-cased name is reported as newly
\* identified. A flag named "__proto__" is compared with no previous flag: it
\* is reported as increased when its severity is high and not at all
\* otherwise.
C21_LowToMediumReported ==
  ComparesAnalyses =>
    /\ MediumToHighAndNewReported
    /\ \A i \in DOMAIN LatestFlags :
         LET r == LatestFlags[i]
         IN /\ (WentFromTo(r, PreviousFlags, "low", "medium") /\ ~ProtoName(r))
                 => Reported(SeverityIncreased(r.risk))
            /\ ProtoName(r) =>
                 /\ ~Reported(NewlyIdentified(r.risk))
                 /\ ToLowerCase(r.severity) = <<"high">>
                      => Reported(SeverityIncreased(r.risk))
    /\ (Len(LatestFlags) = 1 /\ WentFromTo(LatestFlags[1], PreviousFlags, "low", "medium"))
         => calc.output.worsening_signals =
              (IF ProtoName(LatestFlags[1]) THEN <<>>
               ELSE <<SeverityIncreased(LatestFlags[1].risk)>>)

C21_Witness ==
  /\ ComparesAnalyses
  /\ PreviousFlags = <<Flag(<<"Fall risk">>, <<"low">>)>>
  /\ LatestFlags = <<Flag(<<"Fall risk">>, <<"medium">>)>>
  /\ calc.output.worsening_signals = <<SeverityIncreased(<<"Fall risk">>)>>

NormalizedEqual(a, b) == normalizeForCompare(a) = normalizeForCompare(b)
LowerCaseEqual(a, b) == ToLowerCase(a) = ToLowerCase(b)

\* the concerns and key observations of an analysis, as stored
FindingsOf(analysis) ==
  {analysis.structuredData.concerns[i] : i \in DOMAIN analysis.structuredData.concerns}
    \cup {analysis.structuredData.key_observations[i] :
            i \in DOMAIN analysis.structuredData.key_observations}

\* a concern or observation of latest is a new finding exactly when no concern
\* or observation of previous has its normalized form
FindingsComparedNormalized ==
  ComparesAnalyses =>
    \A c \in FindingsOf(calc.input.latest) :
      (\E k \in DOMAIN calc.output.new_findings :
         calc.output.new_findings[k] = normalizeForCompare(c))
        <=> ~\E p \in FindingsOf(calc.input.previous) : NormalizedEqual(c, p)

CountsNewRisks == calc.fn = "countNewRisksSincePrior" /\ calc.input.previous # NoPrevious

\* C22 as stated: concerns, observations and risk names are all compared on
\* the normalized form, so a risk of latest counts as new, and is reported as
\* newly identified, only when no risk of previous has its normalized name.
C22_AllComparisonsNormalized ==
  /\ FindingsComparedNormalized
  /\ CountsNewRisks =>
       calc.output = Cardinality({i \in DOMAIN LatestFlags :
                        ~\E j \in DOMAIN PreviousFlags :
                           NormalizedEqual(LatestFlags[i].risk, PreviousFlags[j].risk)})
  /\ ComparesAnalyses =>
       \A i \in DOMAIN LatestFlags :
         (\E j \in DOMAIN PreviousFlags :
            NormalizedEqual(LatestFlags[i].risk, PreviousFlags[j].risk))
           => ~Reported(NewlyIdentified(LatestFlags[i].risk))

\* C22, amended: concerns and observations are compared on the normalized
\* form; risk names are compared lower-cased only, so a risk of latest counts
\* as new exactly when no risk of previous has its lower-cased name, and is
\* never reported as newly identified when one has.
C22_RiskNamesComparedLowerCased ==
  /\ FindingsComparedNormalized
  /\ CountsNewRisks =>
       calc.output = Cardinality({i \in DOMAIN LatestFlags :
                        ~\E j \in DOMAIN PreviousFlags :
                           LowerCaseEqual(LatestFlags[i].risk, PreviousFlags[j].risk)})
  /\ ComparesAnalyses =>
       \A i \in DOMAIN LatestFlags :
         HasCounterpart(LatestFlags[i], PreviousFlags)
           => ~Reported(NewlyIdentified(LatestFlags[i].risk))

\* a name with a trailing period counts as a new risk next to the same name
\* without it
C22_Witness ==
  /\ CountsNewRisks
  /\ PreviousFlags = <<Flag(<<"Fall risk">>, <<"low">>)>>
  /\ LatestFlags = <<Flag(<<"Fall risk", ".">>, <<"low">>)>>
  /\ calc.output = 1
  /\ countNewRisksSincePrior(
       VisitAnalysis(<<>>, <<>>, <<Flag(<<"fall risk">>, <<"low">>)>>),
       VisitAnalysis(<<>>, <<>>, <<Flag(<<"Fall risk">>, <<"low">>)>>)) = 0

NonEmptyFields(analysis) ==
  {f \in ListFieldNames \cup {"visit_summary"} : analysis.structuredData[f] # <<>>}

\* the score the claim describes
StatedScore(analysis) ==
  LET len == StrLen(analysis.cleanedTranscript)
  IN (IF len > 150 THEN 1 ELSE 0)
       + (IF Cardinality(NonEmptyFields(analysis)) > 4 THEN 1 ELSE 0)
       + (IF Len(analysis.risks.risk_flags) >= 2 THEN 1 ELSE 0)
       - (IF len < 50 THEN 1 ELSE 0)
       - (IF {"concerns", "key_observations"} \cap NonEmptyFields(analysis) = {} THEN 1 ELSE 0)

\* C23: the level of computeAIConfidence is Low when the stated score is at
\* most 1, Medium when it is 2 and High when it is at least 3; a transcript
\* shorter than 50 characters never yields a level above Low.
C23_ConfidenceLevelFromScore ==
  calc.fn = "computeAIConfidence" =>
    /\ calc.output.level =
         (IF StatedScore(calc.input) <= 1 THEN "Low"
          ELSE IF StatedScore(calc.input) = 2 THEN "Medium" ELSE "High")
    /\ StrLen(calc.input.cleanedTranscript) < 50 => calc.output.level = "Low"

\* a 49-character transcript with every field populated and two risk flags
\* scores 1 and is rated Low
C23_Witness ==
  /\ calc.fn = "computeAIConfidence"
  /\ StrLen(calc.input.cleanedTranscript) = 49
  /\ Cardinality(NonEmptyFields(calc.input)) = 6
  /\ Len(calc.input.risks.risk_flags) = 2
  /\ StatedScore(calc.input) = 1
  /\ calc.output.level = "Low"
  /\ computeAIConfidence([calc.input EXCEPT
       !.cleanedTranscript = <<Filler49, Filler49, Filler49, "x", "x", "x", "x">>]).level
       = "High"

IsSubsequenceOf(s, full) ==
  \E keep \in SUBSET DOMAIN full :
    /\ Cardinality(keep) = Len(s)
    /\ \A i \in DOMAIN s :
         s[i] = full[CHOOSE k \in keep : Cardinality({j \in keep : j <= k}) = i]

Has(actions, a) == \E i \in DOMAIN actions : actions[i] = a

AnyHigh(risks) == \E i \in DOMAIN risks : SeverityIs(risks[i], "high")
TwoMedium(risks) ==
  \E i, j \in DOMAIN risks :
    /\ i # j
    /\ SeverityIs(risks[i], "medium") \/ SeverityIs(risks[i], "moderate")
    /\ SeverityIs(risks[j], "medium") \/ SeverityIs(risks[j], "moderate")
NameHas(risks, word) == \E i \in DOMAIN risks : Includes(ToLowerCase(risks[i].risk), word)

\* C24: the actions of generateEscalation are, in this order and without
\* repetition, the notification (some flag is high), the 24-hour monitoring
\* (two or more flags are medium or moderate), the fall prevention (a risk name
\* contains "fall") and the medication review (a risk name contains
\* "medication" or "med"), each present exactly when its condition holds; the
\* routine monitoring is present exactly when there are flags and none of the
\* four conditions holds; the result is empty exactly when there is no flag.
C24_EscalationActions ==
  calc.fn = "generateEscalation" =>
    LET risks == calc.input
        actions == calc.output
        four == <<NotifyClinician, Monitor24h, FallPrevention, MedicationReview>>
        none == ~AnyHigh(risks) /\ ~TwoMedium(risks) /\ ~NameHas(risks, "fall")
                  /\ ~NameHas(risks, "medication") /\ ~NameHas(risks, "med")
    IN /\ Has(actions, NotifyClinician) <=> AnyHigh(risks)
       /\ Has(actions, Monitor24h) <=> TwoMedium(risks)
       /\ Has(actions, FallPrevention) <=> NameHas(risks, "fall")
       /\ Has(actions, MedicationReview)
            <=> (NameHas(risks, "medication") \/ NameHas(risks, "med"))
       /\ Has(actions, RoutineMonitoring) <=> (risks # <<>> /\ none)
       /\ IsSubsequenceOf(actions, four) \/ actions = <<RoutineMonitoring>>
       /\ actions = <<>> <=> risks = <<>>

C24_Witness ==
  /\ calc.fn = "generateEscalation"
  /\ calc.input = <<Flag(<<"Fall risk">>, <<"High">>),
                    Flag(<<"Immediate attention">>, <<"moderate">>),
                    Flag(<<"Dehydration">>, <<"medium">>)>>
  /\ calc.output = <<NotifyClinician, Monitor24h, FallPrevention, MedicationReview>>
  /\ generateEscalation(<<Flag(<<"Dehydration">>, <<"medium">>)>>) = <<RoutineMonitoring>>

\* the lines of a text: its pieces between line breaks
RECURSIVE SplitLines(_)
SplitLines(t) ==
  IF \A i \in DOMAIN t : t[i] # "\n" THEN <<t>>
  ELSE LET k == CHOOSE i \in DOMAIN t : t[i] = "\n" /\ \A j \in 1..(i - 1) : t[j] # "\n"
       IN <<SubSeq(t, 1, k - 1)>> \o SplitLines(SubSeq(t, k + 1, Len(t)))

ExportLines == SplitLines(calc.output)

\* the headings of the EMR text stand at lines p < a < c < q
EMRHeadingsAt(p, a, c, q) ==
  /\ p < a /\ a < c /\ c < q
  /\ ExportLines[p] # <<>> /\ ExportLines[p][1] = "Patient: "
  /\ ExportLines[a] = <<"Assessment">>
  /\ ExportLines[c] = <<"Clinical Risks">>
  /\ ExportLines[q] = <<"Plan">>

\* the lines between the Clinical Risks heading and the blank line before Plan
RiskSection(c, q) == SubSeq(ExportLines, c + 1, q - 2)
PlanSection(q) == SubSeq(ExportLines, q + 1, Len(ExportLines))

StatedRiskLines == [i \in DOMAIN calc.input.riskFlags |-> EMRRiskLine(calc.input.riskFlags[i])]
StatedPlanLines ==
  [i \in DOMAIN calc.input.suggestedActions |-> PlanLine(calc.input.suggestedActions[i])]

\* C25: the text of buildEMRExportText has the lines "Patient: ...",
\* "Assessment", "Clinical Risks" and "Plan" in this order; the lines under
\* "Clinical Risks" are the formatted lines of the risk flags, one line per
\* flag in input order, and the lines under "Plan" are one line per action in
\* input order.
C25_OneLinePerFlagAndAction ==
  calc.fn = "buildEMRExportText" =>
    \E p, a, c, q \in DOMAIN ExportLines :
      /\ EMRHeadingsAt(p, a, c, q)
      /\ calc.input.riskFlags # <<>> =>
           /\ Len(RiskSection(c, q)) = Len(calc.input.riskFlags)
           /\ RiskSection(c, q) = StatedRiskLines
      /\ calc.input.suggestedActions # <<>> =>
           /\ Len(PlanSection(q)) = Len(calc.input.suggestedActions)
           /\ PlanSection(q) = StatedPlanLines

SingleLine(t) == \A i \in DOMAIN t : t[i] # "\n"

\* C25, for entries without a line break: the headings stand in order, and
\* the text under "Clinical Risks" and under "Plan" is the entries of the
\* flags and of the actions in input order, one line each when no entry holds
\* a line break.
C25_OneEntryPerFlagAndAction ==
  calc.fn = "buildEMRExportText" =>
    \E p, a, c, q \in DOMAIN ExportLines :
      /\ EMRHeadingsAt(p, a, c, q)
      /\ calc.input.riskFlags # <<>> =>
           /\ JoinLines(RiskSection(c, q)) = JoinLines(StatedRiskLines)
           /\ (\A i \in DOMAIN StatedRiskLines : SingleLine(StatedRiskLines[i]))
                => RiskSection(c, q) = StatedRiskLines
      /\ calc.input.suggestedActions # <<>> => PlanSection(q) = StatedPlanLines

\* a flag whose reason holds a line break takes two lines under the heading
C25_ReasonWithLineBreakReached ==
  /\ calc.fn = "buildEMRExportText"
  /\ calc.input.riskFlags = <<FlagFor(<<"Dehydration">>, <<"low">>, <<"Dizzy", ".", "\n", "Monitor">>)>>
  /\ calc.input.suggestedActions = <<>>
  /\ calc.input.summary = <<>>
  /\ ExportLines = << <<"Patient: ", "Ann", ", Age ", "72">>, <<"Date: ", "Jan 5, 2026">>, <<>>,
                      <<"Assessment">>, <<NoAcuteConcerns>>, <<>>,
                      <<"Clinical Risks">>,
                      <<"- ", "Dehydration", " (", "Low", "): ", "Dizzy", ".">>,
                      <<"Monitor">>,
                      <<>>,
                      <<"Plan">>, <<RoutineMonitoring>> >>

\* the line after a heading line exists and is not empty
SectionNotEmpty(heading) ==
  \A k \in DOMAIN ExportLines :
    ExportLines[k] = <<heading>> => k < Len(ExportLines) /\ ExportLines[k + 1] # <<>>

LineAfter(heading) ==
  ExportLines[1 + CHOOSE k \in DOMAIN ExportLines : ExportLines[k] = <<heading>>]

\* buildEMRExportText puts its placeholder under a heading without entries
EMRFallsBack ==
  calc.fn = "buildEMRExportText" =>
    /\ SectionNotEmpty("Clinical Risks") /\ SectionNotEmpty("Plan")
    /\ calc.input.riskFlags = <<>> => LineAfter("Clinical Risks") = <<NoneIdentified>>
    /\ calc.input.suggestedActions = <<>> => LineAfter("Plan") = <<RoutineMonitoring>>

\* C26: in the text of either export builder no heading of the risk section
\* or of the plan or actions section is followed by an empty section: without
\* risk flags, and without actions, a fixed placeholder line stands there.
C26_NoEmptySection ==
  /\ EMRFallsBack
  /\ calc.fn = "buildExportText" =>
       SectionNotEmpty("Clinical Risk Signals") /\ SectionNotEmpty("Suggested Actions")

\* C26, for buildEMRExportText alone.
C26_EMRSectionsNeverEmpty == EMRFallsBack

\* buildExportText without flags and actions: both headings stand alone
C26_BareHeadingsReached ==
  /\ calc.fn = "buildExportText"
  /\ calc.input.riskFlags = <<>>
  /\ calc.input.suggestedActions = <<>>
  /\ calc.input.summary = <<"Exam", " ", "confirms", " ", "fatigue", ".">>
  /\ ExportLines = << <<"Patient: ", "Ann", ", Age ", "72">>, <<"Date: ", "Jan 5, 2026">>, <<>>,
                      <<"Summary">>, <<"Exam", " ", "confirms", " ", "fatigue", ".">>, <<>>,
                      <<"Clinical Risk Signals">>, <<>>, <<"Suggested Actions">> >>

DeriveHelpers == {"getInsightBannerMessage", "deriveAISnapshotText", "deriveKeyTakeaway"}

AppliedDerive == calc # CalcIdle /\ calc.fn \in DeriveHelpers

\* previous exists and the trend has a worsening signal or a new finding
TrendChanged(in) ==
  /\ in.previous # NoPrevious
  /\ hasChange(computeTrendAnalysis(in.latest, in.previous))

HasHighFlag(in) ==
  \E i \in DOMAIN in.latest.risks.risk_flags :
    ToLowerCase(in.latest.risks.risk_flags[i].severity) = <<"high">>

\* a message that speaks of a change since the prior visit
ChangeBasedMessage(fn, out) ==
  CASE fn = "getInsightBannerMessage" -> out = <<NotableChange>>
    [] fn = "deriveAISnapshotText" ->
         \E k \in DOMAIN out : out[k] \in {"New: ", " compared to prior visit."}
    [] fn = "deriveKeyTakeaway" -> out # <<>> /\ out[Len(out)] = " suggest monitoring."

\* a message that says the patient is stable or that nothing is of concern
StableMessage(fn, in, out) ==
  CASE fn = "getInsightBannerMessage" -> out \in {<<ConditionStable>>, <<VisitDocumented>>}
    [] fn = "deriveAISnapshotText" ->
         \/ out = <<NoSignificantConcerns>>
         \/ out = in.latest.structuredData.visit_summary
         \/ out # <<>> /\ out[1] \in {"Patient stable overall with ",
                                      "Patient stable overall with mild concerns: "}
    [] fn = "deriveKeyTakeaway" ->
         \/ out = <<NoAcuteConcernsTakeaway>>
         \/ out = FirstSentence(in.latest.structuredData.visit_summary) \o <<".">>

\* a message that raises the risk flags without calling the patient stable
RiskMessage(fn, in, out) ==
  /\ ~ChangeBasedMessage(fn, out)
  /\ ~StableMessage(fn, in, out)
  /\ CASE fn = "getInsightBannerMessage" ->
            out \in {<<MultipleRiskSignals>>, <<SeveralAreas>>, <<RiskSignalNoted>>}
       [] fn = "deriveAISnapshotText" ->
            \E i \in DOMAIN in.latest.risks.risk_flags :
              \E k \in DOMAIN out : out[k] \in
                {ToLowerCase(in.latest.risks.risk_flags[i].risk)[j] :
                   j \in DOMAIN in.latest.risks.risk_flags[i].risk}
       [] fn = "deriveKeyTakeaway" -> out # <<>> /\ out[Len(out)] = " may warrant attention."

FollowsPriority(fn, in, out) ==
  /\ TrendChanged(in) => ChangeBasedMessage(fn, out)
  /\ (~TrendChanged(in) /\ HasHighFlag(in)) => RiskMessage(fn, in, out)
  /\ StableMessage(fn, in, out) => (~TrendChanged(in) /\ ~HasHighFlag(in))

\* C27: each of getInsightBannerMessage, deriveAISnapshotText and
\* deriveKeyTakeaway returns a change-based message whenever previous exists
\* and the trend has a worsening signal or new finding, otherwise a risk
\* message whenever latest has a high-severity flag, and a stable or
\* no-concern message only when neither holds.
C27_EveryHelperFollowsPriority ==
  AppliedDerive => FollowsPriority(calc.fn, calc.input, calc.output)

\* C27, for the banner and the key takeaway: both follow the priority
\* worsening/new > high-risk > stable.
C27_BannerAndTakeawayFollowPriority ==
  (AppliedDerive /\ calc.fn # "deriveAISnapshotText")
    => FollowsPriority(calc.fn, calc.input, calc.output)

\* C27, for the snapshot text: a change comes first, and without a change
\* every latest visit with a risk flag, whatever its severity, is described
\* as stable overall.
C27_SnapshotHasNoHighRiskTier ==
  (AppliedDerive /\ calc.fn = "deriveAISnapshotText")
    => /\ TrendChanged(calc.input) => ChangeBasedMessage(calc.fn, calc.output)
       /\ (~TrendChanged(calc.input) /\ calc.input.latest.risks.risk_flags # <<>>)
            => calc.output[1] \in {"Patient stable overall with ",
                                   "Patient stable overall with mild concerns: "}

\* the snapshot text of an unchanged visit carrying a high-severity flag
C27_HighRiskCalledStable ==
  /\ AppliedDerive
  /\ calc.fn = "deriveAISnapshotText"
  /\ ~TrendChanged(calc.input)
  /\ HasHighFlag(calc.input)
  /\ calc.output = <<"Patient stable overall with ", "fall risk", " noted.">>

\* the banner and the takeaway of a changed visit carrying a high-severity flag
C27_ChangeBeforeRisk ==
  /\ AppliedDerive
  /\ calc.fn # "deriveAISnapshotText"
  /\ TrendChanged(calc.input)
  /\ HasHighFlag(calc.input)
  /\ ChangeBasedMessage(calc.fn, calc.output)

-----------------------------------------------------------------------------
(* Termination of the pipeline and of handleAnalyze *)

\* The server-side invocation and the record page are followed one at a
\* time: the pipeline runs while the store is untouched, the page while no
\* invocation of the pipeline is followed. The page takes the steps that
\* feed, start, serve, resume or unmount handleAnalyze, for the one patient
\* that is added and stays active.
ServerStep == StoreIdle /\ NextPipeline
ClientStep ==
  /\ pipe = PipeIdle
  /\ \/ (patients = <<>> /\ AddPatient)
     \/ TypeTranscript
     \/ TryDemo
     \/ RecordingComplete
     \/ ClickAnalyze
     \/ TranscribeRouteStarts
     \/ TranscribeRouteReadsForm
     \/ TranscribeRouteReturns
     \/ TranscribeFetchSettles
     \/ TranscribeResponds
     \/ AnalyzeRouteStarts
     \/ AnalyzeRouteValidates
     \/ ServedCleanReturns
     \/ ServedStructureReturns
     \/ ServedAnalyzeReturns
     \/ AnalyzeFetchSettles
     \/ AnalyzeResponds
     \/ OrphanedRouteRuns
     \/ Navigate

NextTerminating == ServerStep \/ ClientStep

\* an invocation runs up to its next await, and a gateway call that is
\* awaited returns or throws
PipelineProgress == StoreIdle /\ (Invoke \/ CleanReturns \/ StructureReturns \/ AnalyzeReturns)

\* an await of handleAnalyze settles: the fetch resolves or rejects, and
\* res.json() resolves or rejects
AwaitSettles ==
  /\ pipe = PipeIdle
  /\ \/ TranscribeFetchSettles
     \/ TranscribeResponds
     \/ AnalyzeFetchSettles
     \/ AnalyzeResponds

\* Weak fairness of the awaited steps: a gateway call returns or throws, and
\* every promise handleAnalyze awaits settles. No fairness is asked of the
\* server: a fetch whose request is not answered rejects.
SpecTerminating ==
  /\ InitPipeline
  /\ [][NextTerminating]_vars
  /\ WF_vars(PipelineProgress)
  /\ WF_vars(AwaitSettles)

GatewayCallAwaited == pipe.pc \in {"clean", "structure", "analyze"}

\* the invocation is over, with a result or with an error
TerminatedWithResultOrError ==
  /\ pipe.pc = "done"
  /\ \/ pipe.outcome.ok /\ "value" \in DOMAIN pipe.outcome
     \/ ~pipe.outcome.ok /\ "thrown" \in DOMAIN pipe.outcome

\* at most three gateway calls, no stage called twice
AtMostThreeCallsNoRetry ==
  /\ Len(gatewayLog) <= 3
  /\ \A i, j \in DOMAIN gatewayLog :
       i # j => gatewayLog[i].request.stage # gatewayLog[j].request.stage

\* a step that ends a handleAnalyze call either reaches the error status (on
\* the instance that started it, while it is mounted) or appends the result
\* and navigates to /insights
EndsByErrorOrAppendAndNavigate ==
  Len(invocations') < Len(invocations) =>
    \/ /\ lastEvent'.op \in {"transcribeFailed", "analyzeFailed"}
       /\ patients' = patients
       /\ route' = route
       /\ \/ page'.status = "error"
          \/ \E k \in DOMAIN invocations : ~invocations[k].mounted
    \/ /\ lastEvent'.op = "analyzeSucceeded"
       /\ patients' # patients
       /\ route' = "insights"
       /\ ~isLoading(page'.status)

\* C28: provided the gateway calls and the fetches settle, an invocation of
\* analyzeCaregiverTranscript that awaits a gateway call ends with a result or
\* an error, having made at most three gateway calls and none of a stage
\* twice; a record page in a loading status leaves it; once no further
\* handleAnalyze is started every started one has ended; and a handleAnalyze
\* call ends by reaching the error status or by appending and navigating.
C28_AnalysesTerminate ==
  /\ []AtMostThreeCallsNoRetry
  /\ GatewayCallAwaited ~> TerminatedWithResultOrError
  /\ isLoading(page.status) ~> ~isLoading(page.status)
  /\ <>[][~ClickAnalyze]_vars => <>[](invocations = <<>>)
  /\ [][EndsByErrorOrAppendAndNavigate]_vars

\* C28 witness: a handleAnalyze call has ended with the result appended and
\* the insights page shown
C28_Witness ==
  /\ lastEvent.op = "analyzeSucceeded"
  /\ invocations = <<>>
  /\ route = "insights"
  /\ \E i \in DOMAIN patients : patients[i].analyses # <<>>

\* C28 witness of the pipeline: an invocation ended after three gateway calls
C28_ThreeCallsMade ==
  /\ TerminatedWithResultOrError
  /\ Len(gatewayLog) = 3

-----------------------------------------------------------------------------
(* src/lib/patient-store.tsx: hydration from and persistence to sessionStorage *)

\* "mary-thompson", as an id no generated patient has
LEGACY_DUMMY_ID == 99

\* sessionStorage.getItem(STORAGE_KEY) of an item never set, or set to ""
NoItem == [item |-> "absent"]
\* an item that JSON.parse rejects
InvalidItem == [item |-> "invalid"]
\* the item "null": parsed.patients throws a TypeError
NullItem == [item |-> "null"]
\* an item holding a JSON object
ObjectItem(value) == [item |-> "object", value |-> value]

\* JSON.stringify({ patients, activePatientId })
StringifyStore(ps, activeId) ==
  ObjectItem([patients |-> ps, activePatientId |-> activeId])

EmptyStore == [patients |-> <<>>, activePatientId |-> 0]

\* loadFromStorage taking the stored activePatientId as it is
loadFromStorageTrustingActiveId(stored) ==
  IF stored.item # "object" THEN EmptyStore
  ELSE LET parsed == stored.value
           listed == IF "patients" \in DOMAIN parsed THEN parsed.patients ELSE <<>>
           kept == SelectSeq(listed, LAMBDA p : p.id # LEGACY_DUMMY_ID)
       IN IF Len(kept) > 0
          THEN [patients |-> kept,
                activePatientId |-> IF "activePatientId" \in DOMAIN parsed
                                    THEN parsed.activePatientId ELSE 0]
          ELSE EmptyStore

\* loadFromStorage() in the browser, for the item sessionStorage holds
loadFromStorage(stored) ==
  IF stored.item # "object" THEN EmptyStore
  ELSE LET parsed == stored.value
           listed == IF "patients" \in DOMAIN parsed THEN parsed.patients ELSE <<>>
           kept == SelectSeq(listed, LAMBDA p : p.id # LEGACY_DUMMY_ID)
       IN IF Len(kept) > 0
          THEN LET activeId == IF "activePatientId" \in DOMAIN parsed
                               THEN parsed.activePatientId ELSE 0
                   validActiveId == IF activeId # 0 /\ activeId \in PatientIds(kept)
                                    THEN activeId ELSE kept[1].id
               IN [patients |-> kept, activePatientId |-> validActiveId]
          ELSE EmptyStore

\* the second effect saving whatever the render holds
saveEffectUnguarded(stored, ps, activeId, hydrated) == StringifyStore(ps, activeId)

\* the second effect of PatientProvider, run for a render that holds
\* (ps, activeId, hydrated): the item sessionStorage holds afterwards
saveEffect(stored, ps, activeId, hydrated) ==
  IF ~hydrated THEN stored ELSE StringifyStore(ps, activeId)

\* the render whose effects have run
Rendered(ps, activeId, hydrated) ==
  [patients |-> ps, activePatientId |-> activeId, hydrated |-> hydrated]
NotFlushed == [none |-> TRUE]

Session(stored, hydrated, flushed) ==
  [stored |-> stored, hydrated |-> hydrated, flushed |-> flushed]

StoredPatient(id) == [id |-> id, name |-> "Ann", age |-> 72, analyses |-> <<>>]
LegacyDummy == [id |-> LEGACY_DUMMY_ID, name |-> "Mary Thompson", age |-> 78,
                analyses |-> <<>>]

\* what sessionStorage can hold when the provider mounts: nothing, items of
\* other shapes, and records written by this or an earlier version
StoredItems ==
  {NoItem, InvalidItem, NullItem, ObjectItem([activePatientId |-> 1]),
   StringifyStore(<<>>, 0),
   StringifyStore(<<LegacyDummy>>, LEGACY_DUMMY_ID),
   StringifyStore(<<LegacyDummy, StoredPatient(1)>>, LEGACY_DUMMY_ID),
   StringifyStore(<<StoredPatient(1), LegacyDummy>>, 1),
   StringifyStore(<<StoredPatient(1)>>, 0),
   StringifyStore(<<StoredPatient(1)>>, 7),
   StringifyStore(<<StoredPatient(1), StoredPatient(2)>>, 2)}

\* the effects of the first render and the render they schedule: the first
\* effect loads, the second sees hydrated = false, then the loaded state and
\* hydrated = true are rendered
MountEffects ==
  /\ session.flushed = NotFlushed
  /\ LET loaded == loadFromStorage(session.stored)
     IN /\ patients' = loaded.patients
        /\ activePatientId' = loaded.activePatientId
        /\ session' = Session(saveEffect(session.stored, patients, activePatientId,
                                         session.hydrated),
                              TRUE,
                              Rendered(patients, activePatientId, session.hydrated))
        /\ lastEvent' = [op |-> "hydrated", stored |-> session.stored]
  /\ UNCHANGED <<apiKeyConfigured, orphaned, clientInstance, pipeVars, http, calc, callback, route,
                 page, invocations, clock>>

\* every effect of the last render has run
EffectsFlushed ==
  session.flushed = Rendered(patients, activePatientId, session.hydrated)

\* the second effect of a later render, run because patients,
\* activePatientId or hydrated differ from the render before
SaveEffect ==
  /\ session.flushed # NotFlushed
  /\ ~EffectsFlushed
  /\ session' = Session(saveEffect(session.stored, patients, activePatientId,
                                   session.hydrated),
                        session.hydrated,
                        Rendered(patients, activePatientId, session.hydrated))
  /\ lastEvent' = [op |-> "effectRan"]
  /\ UNCHANGED <<apiKeyConfigured, orphaned, clientInstance, pipeVars, http, calc, callback, patients,
                 activePatientId, route, page, invocations, clock>>

\* an event handler or a render of a consumer: pending effects run first
ConsumerStep ==
  /\ EffectsFlushed
  /\ \/ AddPatient
     \/ SetActivePatient
     \/ TakeCallback
     \/ CallAddAnalysis

\* PatientProvider is mounted over whatever sessionStorage holds
InitSession ==
  /\ apiKeyConfigured \in BOOLEAN
  /\ clientInstance = FALSE
  /\ pipe = PipeIdle
  /\ gatewayLog = <<>>
  /\ StoreIdle
  /\ http = HttpIdle
  /\ calc = CalcIdle
  /\ \E stored \in StoredItems : session = Session(stored, FALSE, NotFlushed)

NextSession ==
  \/ MountEffects
  \/ SaveEffect
  \/ ConsumerStep

\* React runs the effects of every render it commits
SpecSession ==
  /\ InitSession
  /\ [][NextSession]_vars
  /\ WF_vars(MountEffects)
  /\ WF_vars(SaveEffect)

-----------------------------------------------------------------------------
(* Claims about hydration and persistence *)

\* what the claim says loadFromStorage returns for the item stored
LoadedAsStated(stored, ps, activeId) ==
  \/ ps = <<>> /\ activeId = 0
  \/ /\ ps # <<>>
     /\ stored.item = "object"
     /\ ps = SelectSeq(stored.value.patients, LAMBDA p : p.id # LEGACY_DUMMY_ID)
     /\ activeId \in PatientIds(ps)
     /\ activeId = IF stored.value.activePatientId \in PatientIds(ps)
                   THEN stored.value.activePatientId ELSE ps[1].id

\* C29: once hydrated, activePatientId is null or the id of a listed patient;
\* and the state loadFromStorage hands to the provider is an empty list with
\* a null active id, or the stored list without the legacy dummy patient,
\* non-empty, with the stored active id when it belongs to the list and the
\* first patient's id otherwise.
C29_ActivePatientIsListed ==
  /\ session.hydrated => activePatientId \in PatientIds(patients) \cup {0}
  /\ lastEvent.op = "hydrated" =>
       LoadedAsStated(lastEvent.stored, patients, activePatientId)

\* C29 witness: after hydration a second patient has been added and made
\* active, and the effect that saves the state has run
C29_Witness ==
  /\ session.hydrated
  /\ lastEvent.op = "effectRan"
  /\ Len(patients) = 2
  /\ activePatientId = 2
  /\ \A i \in DOMAIN patients : patients[i].id # LEGACY_DUMMY_ID
  /\ session.stored = StringifyStore(patients, activePatientId)

\* C29 witness of the load: the dummy patient was dropped and the first
\* remaining patient made active
C29_DefaultedToFirst ==
  /\ lastEvent = [op |-> "hydrated",
                  stored |-> StringifyStore(<<LegacyDummy, StoredPatient(1)>>,
                                            LEGACY_DUMMY_ID)]
  /\ patients = <<StoredPatient(1)>>
  /\ activePatientId = 1

\* a write to session storage happens only once hydrated is true and writes
\* the current state
WritesOnlyHydratedState ==
  session'.stored # session.stored =>
    /\ session.hydrated
    /\ session'.stored = StringifyStore(patients, activePatientId)
    /\ patients' = patients
    /\ activePatientId' = activePatientId

SavedCurrentState ==
  /\ session.hydrated
  /\ session.stored = StringifyStore(patients, activePatientId)

\* C30: session storage is written only once hydrated is true and only with
\* the current state, so that the item found at mount is still there when
\* the load has run; and after hydration every state of patients and
\* activePatientId is followed by a state in which exactly it is stored.
C30_SavesOnlyAfterHydration ==
  /\ [][WritesOnlyHydratedState]_vars
  /\ [](session.hydrated => <>SavedCurrentState)
  /\ \A stored \in StoredItems :
       [](session = Session(stored, FALSE, NotFlushed)
            => <>(lastEvent = [op |-> "hydrated", stored |-> stored]))

\* C30 witness: a persisted record was loaded and a later change of the
\* active patient has been saved over it
C30_Witness ==
  /\ SavedCurrentState
  /\ lastEvent.op = "effectRan"
  /\ patients = <<StoredPatient(1), StoredPatient(2)>>
  /\ activePatientId = 1

====
